---- MODULE Spec2Model ----
(***************************************************************************)
(* Model of the websocket hub of cydxin/chat-sdk (src/ws.go): the          *)
(* UserSession read-cursor object, the WsServer registries, the Run event  *)
(* loop, the gc (reclamation) timers and SendToUser; of the onMessage      *)
(* handler (src/ws_on_function.go); and of the VerifyCodeService.          *)
(*                                                                         *)
(* Time is counted in units of five minutes: the gc delay of 5 minutes is  *)
(* 1 unit, the prune threshold of 10 minutes is 2 units.  A zero time.Time *)
(* is 0; the clock starts at 1.                                            *)
(***************************************************************************)
EXTENDS Integers, Sequences, FiniteSets, TLC

\* ---------------------------------------------------------------- bounds
\* users with several devices
NUsers == 1
\* further users, with one connection each
NPeers == 1
MaxConns == 3
\* connections opened where two are enough
MaxLive == 2
NRooms == 1
MaxMsg == 2
MaxTime == 3
MaxIdle == 2
NDev == 2
QueueCap == 1
MaxSends == 2
\* send requests read by the read loops
MaxReqs == 1
\* verification codes: concurrent callers, code values, codes issued, a code accepted
NCallers == 2
NCodes == 2
MaxIssues == 2
MaxAccepts == 2
NSenders == 1

\* ------------------------------------------------------ program constants
\* time.AfterFunc(5*time.Minute, ...): one unit of five minutes
GcDelay == 1
\* sess.pruneReadListIfIdle(10 * time.Minute): two units of five minutes
IdleFor == 2

Users == 1..(NUsers + NPeers)
\* the connections of the users 1..NUsers, and those of the further users
Devices == 1..MaxConns
Peers == (MaxConns + 1)..(MaxConns + NPeers)
Conns == Devices \cup Peers
Live == 1..MaxLive
Rooms == 1..NRooms
MsgIds == 1..MaxMsg
SessIds == 1..(2 * (MaxConns + NPeers))
Devs == 1..NDev
Senders == 1..NSenders

\* The user a connection is opened for (ServeWS's userID argument).
UserOf(c) == IF c \in Devices THEN ((c - 1) % NUsers) + 1 ELSE NUsers + (c - MaxConns)

Max(a, b) == IF a >= b THEN a ELSE b

\* ------------------------------------------------------ verification codes
\* Strings are sequences of characters; "" is << >>.
RECURSIVE TrimLeft(_)
TrimLeft(str) == IF str # <<>> /\ Head(str) = " " THEN TrimLeft(Tail(str)) ELSE str

RECURSIVE TrimRight(_)
TrimRight(str) ==
  IF str # <<>> /\ str[Len(str)] = " " THEN TrimRight(SubSeq(str, 1, Len(str) - 1)) ELSE str

\* strings.TrimSpace
TrimSpace(str) == TrimRight(TrimLeft(str))

\* strings.Contains(str, ch)
Contains(str, ch) == \E i \in 1..Len(str) : str[i] = ch

\* strings.ToLower
ToLower(str) ==
  [i \in 1..Len(str) |-> IF str[i] = "A" THEN "a" ELSE IF str[i] = "B" THEN "b" ELSE str[i]]

\* mutant of normalizeIdentifier: the identifier is used as it was given
normalizeNothing(identifier) == identifier

\* normalizeIdentifier: TrimSpace, and ToLower when the result contains "@"
normalizeIdentifier(identifier) ==
  LET id == TrimSpace(identifier) IN
  IF Contains(id, "@") THEN ToLower(id) ELSE id

\* the identifiers and purposes the callers pass, and the codes drawn
Identifiers ==
  {<<"a", "@", "b">>, <<"A", "@", "B">>, <<" ", "a", "@", "b", " ">>, <<"A">>, <<" ">>}
Purposes == {"register", ""}
Codes == 1..NCodes
Callers == 1..NCallers

\* the pairs a Redis key is made of: im:verify_code:{purpose}:{identifier} and
\* im:verify_code_cd:{purpose}:{identifier}
Keys ==
  (Purposes \ {""}) \X
    (Identifiers \cup {TrimSpace(i) : i \in Identifiers} \cup {ToLower(TrimSpace(i)) : i \in Identifiers})

\* ------------------------------------------------------------ UserSession
\* &UserSession{UserID: ..., lastSeen: time.Now()}: ReadList nil, dirty false,
\* lastFlush and lastReadChangeAt zero.  ReadList[r] = 0 stands for "no entry".
NewSession(uid) ==
  [UserID |-> uid, ReadList |-> [r \in Rooms |-> 0], dirty |-> FALSE,
   lastFlush |-> 0, lastReadChangeAt |-> 0]

NoSession == NewSession(0)

\* len(s.ReadList) == 0
ReadListEmpty(s) == \A r \in Rooms : s.ReadList[r] = 0

\* mutant of Newer: last writer wins
NewerAlways(lastRead, old) == TRUE

\* mutant of Newer: a repeated value counts as new
NewerOrEqual(lastRead, old) == lastRead >= old

\* the comparison of mergeRead: lastRead > old
Newer(lastRead, old) == lastRead > old

\* the store of mergeRead, given the value old read under the lock
mergeStore(s, roomID, lastRead, old, t) ==
  IF Newer(lastRead, old)
  THEN [s EXCEPT !.ReadList[roomID] = lastRead, !.dirty = TRUE,
                 !.lastReadChangeAt = t]
  ELSE s

\* mergeRead as one step (the whole body runs under ReadMu)
mergeRead(s, roomID, lastRead, t) ==
  IF roomID = 0 \/ lastRead = 0 THEN s
  ELSE mergeStore(s, roomID, lastRead, s.ReadList[roomID], t)

\* mutant of snapshotReadAndDirty: the dirty flag is not looked at
snapshotReadAlways(s) ==
  IF ReadListEmpty(s)
  THEN [snap |-> [r \in Rooms |-> 0], dirty |-> FALSE]
  ELSE [snap |-> s.ReadList, dirty |-> TRUE]

\* snapshotRead: a copy of ReadList (all zero stands for the nil result)
snapshotRead(s) == s.ReadList

\* snapshotReadAndDirty: <<snap, dirty>>, <<nil, false>> unless dirty and non-empty
snapshotReadAndDirty(s) ==
  IF ~s.dirty \/ ReadListEmpty(s)
  THEN [snap |-> [r \in Rooms |-> 0], dirty |-> FALSE]
  ELSE [snap |-> s.ReadList, dirty |-> TRUE]

\* markFlushed: time.Now() is never zero, so lastReadChangeAt follows lastFlush
markFlushed(s, t) ==
  [s EXCEPT !.dirty = FALSE, !.lastFlush = t,
            !.lastReadChangeAt = IF t # 0 THEN t ELSE @]

\* mutant of pruneReadListIfIdle: the dirty check is missing
pruneIgnoringDirty(s, idleFor, t) ==
  IF idleFor <= 0 THEN s
  ELSE IF ReadListEmpty(s) THEN s
  ELSE IF s.lastFlush = 0 THEN s
  ELSE IF s.lastReadChangeAt = 0 THEN s
  ELSE IF t - s.lastReadChangeAt < idleFor THEN s
  ELSE [s EXCEPT !.ReadList = [r \in Rooms |-> 0]]

\* pruneReadListIfIdle
pruneReadListIfIdle(s, idleFor, t) ==
  IF idleFor <= 0 THEN s
  ELSE IF s.dirty THEN s
  ELSE IF ReadListEmpty(s) THEN s
  ELSE IF s.lastFlush = 0 THEN s
  ELSE IF s.lastReadChangeAt = 0 THEN s
  ELSE IF t - s.lastReadChangeAt < idleFor THEN s
  ELSE [s EXCEPT !.ReadList = [r \in Rooms |-> 0]]

\* ------------------------------------------------------------------ state
VARIABLES
  now,        \* the clock, time.Now()
  sess,       \* the UserSession objects, by identity
  nsess,      \* number of UserSession objects allocated so far
  ReadMu,     \* per session: the device holding ReadMu, 0 when free
  mr,         \* per device: its mergeRead call in progress
  op,         \* the last UserSession method applied (history)
  merged,     \* per session and room: greatest value merged since the last prune (history)
  cstate,     \* per connection: where its ServeWS call / its readPump stands
  csess,      \* per connection: Client.session (ServeWS's sess before the Client exists)
  created,    \* per connection: ServeWS's local "created"
  sendq,      \* per connection: the messages buffered in Client.send
  chclosed,   \* per connection: Client.send has been closed
  clients,    \* WsServer.clients
  userClients,\* WsServer.userClients: per user a slice (backing array, length) or no key
  Sessions,   \* WsServer.Sessions: per user a session identity, 0 for none
  gcTimers,   \* WsServer.gcTimers: per user a timer identity, 0 for none
  timer,      \* the time.AfterFunc timers, named by the connection whose unregister made them
  hub,        \* the Run loop: idle, or inside a broadcast or a flush sweep
  stu,        \* the SendToUser calls in progress
  persisted,  \* conversation.last_read_msg_id per user and room (the database)
  panicked,   \* an unrecovered panic has ended the process
  nmsg,       \* number of payloads handed to SendToUser / broadcast so far
  enq,        \* per connection: the payloads ever buffered in its Client.send (history)
  last,       \* per caller: its last SendToUser call that returned (history)
  atDisc      \* per user: session, cursors and end of the grace window when the last
              \* connection was unregistered, until the next register (history)

VARIABLES
  wp,         \* per connection: where its writePump stands, and the n of its batch drain
  wlog,       \* per connection: the payloads written to the transport, in order (history)
  elog,       \* per connection: the payloads buffered in Client.send, in order (history)
  nunreg,     \* per connection: number of sends on h.unregister started (history)
  regd,       \* the connections the register case has processed (history)
  ackDirty    \* per session: dirty was set by a read ack and markFlushed has not run since (history)

VARIABLES
  hreq,       \* per sender: the onMessage call for a send request it is running
  reqs        \* per payload: the send request it answers, and the SendToUser calls made with it (history)

VARIABLES
  rdb,        \* Redis: per key pair the stored code (0: no key) and whether the cooldown key exists
  vc,         \* per caller: its SendCode or VerifyCode call in progress
  vret,       \* what the last call to return has returned, with the identifier
              \* as it was passed when a SendCode met the cooldown (history)
  vh          \* codes issued per key pair, and true results per code issued (history)

sessAux == <<ReadMu, mr, op>>
sessVars == <<sess, nsess, ReadMu, mr, op, merged>>
connVars == <<cstate, csess, created>>
chanVars == <<sendq, chclosed>>
regVars == <<clients, userClients, Sessions, gcTimers>>
histVars == <<enq, last, atDisc>>
hubVars == <<connVars, chanVars, regVars, timer, hub, stu, persisted, panicked, nmsg, histVars>>
pumpVars == <<wp, wlog>>
auxVars == <<pumpVars, elog, nunreg, regd, ackDirty>>
verifyVars == <<rdb, vc, vret, vh>>
chatVars == <<hreq, reqs, verifyVars>>
vars == <<now, sessVars, hubVars, auxVars, chatVars>>

IdleMr == [pc |-> "idle", sid |-> 0, room |-> 0, x |-> 0, old |-> 0]
NoOp == [name |-> "none", sid |-> 0, room |-> 0, arg |-> 0]
NoSnap == [r \in Rooms |-> 0]
\* a nil slice: no key in userClients
NilSlice == [has |-> FALSE, arr |-> <<>>, len |-> 0]
NoTimer == [st |-> "none", deadline |-> 0, tsess |-> 0, snap |-> NoSnap]
IdleHub == [pc |-> "idle", all |-> {}, todo |-> {}, rm |-> {}, msg |-> 0, cur |-> 0,
            snap |-> NoSnap, err |-> FALSE]
IdleStu == [pc |-> "idle", uid |-> 0, msg |-> 0, live |-> FALSE, view |-> <<>>, n |-> 0, i |-> 0,
            start |-> <<>>, full |-> {}, stable |-> TRUE]
NoCall == [msg |-> 0, start |-> <<>>, full |-> {}, stable |-> TRUE]
NoDisc == [t |-> 0, sid |-> 0, map |-> NoSnap, until |-> 0]
\* writePump blocked in its select
IdleWp == [pc |-> "wait", n |-> 0]
\* no call of the VerifyCodeService in progress, nothing returned yet
NoKey == <<"", <<>>>>
IdleVc == [pc |-> "idle", key |-> NoKey, code |-> 0, gen |-> 0]
NoRet == [ident |-> <<>>, res |-> "none", code |-> 0]
\* no send request in the hands of onMessage
IdleReq == [pc |-> "idle", conn |-> 0, msg |-> 0, todo |-> <<>>]
NoReq == [conn |-> 0, kind |-> "none", fail |-> FALSE, valid |-> FALSE, saved |-> FALSE,
          members |-> {}, called |-> <<>>]

\* NewWsServer: empty registries; no connection, no session, the database empty
InitHub ==
  /\ cstate = [c \in Conns |-> "none"]
  /\ csess = [c \in Conns |-> 0]
  /\ created = [c \in Conns |-> FALSE]
  /\ sendq = [c \in Conns |-> <<>>]
  /\ chclosed = [c \in Conns |-> FALSE]
  /\ clients = {}
  /\ userClients = [u \in Users |-> NilSlice]
  /\ Sessions = [u \in Users |-> 0]
  /\ gcTimers = [u \in Users |-> 0]
  /\ timer = [c \in Conns |-> NoTimer]
  /\ hub = IdleHub
  /\ stu = [p \in Senders |-> IdleStu]
  /\ persisted = [u \in Users |-> [r \in Rooms |-> 0]]
  /\ panicked = FALSE
  /\ nmsg = 0
  /\ enq = [c \in Conns |-> {}]
  /\ last = [p \in Senders |-> NoCall]
  /\ atDisc = [u \in Users |-> NoDisc]
  /\ wp = [c \in Conns |-> IdleWp]
  /\ wlog = [c \in Conns |-> <<>>]
  /\ elog = [c \in Conns |-> <<>>]
  /\ nunreg = [c \in Conns |-> 0]
  /\ regd = {}
  /\ ackDirty = [i \in SessIds |-> FALSE]
  /\ hreq = [p \in Senders |-> IdleReq]
  /\ reqs = [m \in 1..MaxSends |-> NoReq]
  /\ rdb = [code |-> [k \in Keys |-> 0], cd |-> [k \in Keys |-> FALSE]]
  /\ vc = [q \in Callers |-> IdleVc]
  /\ vret = NoRet
  /\ vh = [nissue |-> 0, gen |-> [k \in Keys |-> 0],
           accepts |-> [k \in Keys |-> [g \in 1..MaxIssues |-> 0]]]

Init ==
  /\ now = 1
  /\ sess = [i \in SessIds |-> NoSession]
  /\ nsess = 0
  /\ ReadMu = [i \in SessIds |-> 0]
  /\ mr = [d \in Devs |-> IdleMr]
  /\ op = NoOp
  /\ merged = [i \in SessIds |-> [r \in Rooms |-> 0]]
  /\ InitHub

\* time passes
Tick ==
  /\ ~panicked
  /\ now < MaxTime
  /\ now' = now + 1
  /\ UNCHANGED <<chatVars, sessVars, hubVars, auxVars>>

\* --------------------------------------- UserSession under concurrent callers
\* One UserSession as constructed by Register for user 1, its methods called
\* by NDev devices in any order.
InitSession ==
  /\ now = 1
  /\ sess = [i \in SessIds |-> IF i = 1 THEN NewSession(1) ELSE NoSession]
  /\ nsess = 1
  /\ ReadMu = [i \in SessIds |-> 0]
  /\ mr = [d \in Devs |-> IdleMr]
  /\ op = NoOp
  /\ merged = [i \in SessIds |-> [r \in Rooms |-> 0]]
  /\ InitHub

Allocated == 1..nsess

\* s.ReadMu.Lock() succeeds only when the mutex is free
ReadMuFree(sid) == ReadMu[sid] = 0

\* mergeRead(roomID, lastRead): the early return, else go for the lock
MrCall(d, sid, roomID, lastRead) ==
  /\ mr[d].pc = "idle"
  /\ sid \in Allocated
  /\ IF roomID = 0 \/ lastRead = 0
     THEN /\ op' = [name |-> "mergeIgnored", sid |-> sid, room |-> roomID, arg |-> lastRead]
          /\ UNCHANGED mr
     ELSE /\ mr' = [mr EXCEPT ![d] = [pc |-> "lock", sid |-> sid, room |-> roomID,
                                     x |-> lastRead, old |-> 0]]
          /\ UNCHANGED op
  /\ UNCHANGED <<chatVars, now, sess, nsess, ReadMu, merged, hubVars, auxVars>>

\* s.ReadMu.Lock()
MrLock(d) ==
  /\ mr[d].pc = "lock"
  /\ ReadMuFree(mr[d].sid)
  /\ ReadMu' = [ReadMu EXCEPT ![mr[d].sid] = d]
  /\ mr' = [mr EXCEPT ![d].pc = "read"]
  /\ UNCHANGED <<chatVars, now, sess, nsess, op, merged, hubVars, auxVars>>

\* old := s.ReadList[roomID]
MrRead(d) ==
  /\ mr[d].pc = "read"
  /\ mr' = [mr EXCEPT ![d].pc = "store", ![d].old = sess[mr[d].sid].ReadList[mr[d].room]]
  /\ UNCHANGED <<chatVars, now, sess, nsess, ReadMu, op, merged, hubVars, auxVars>>

\* if lastRead > old { store }; s.ReadMu.Unlock()
MrStore(d) ==
  /\ mr[d].pc = "store"
  /\ LET c == mr[d] IN
       /\ sess' = [sess EXCEPT ![c.sid] = mergeStore(@, c.room, c.x, c.old, now)]
       /\ merged' = [merged EXCEPT ![c.sid][c.room] = Max(@, c.x)]
       /\ op' = [name |-> "merge", sid |-> c.sid, room |-> c.room, arg |-> c.x]
       /\ ReadMu' = [ReadMu EXCEPT ![c.sid] = IF @ = d THEN 0 ELSE @]
  /\ mr' = [mr EXCEPT ![d] = IdleMr]
  /\ UNCHANGED <<chatVars, now, nsess, hubVars, auxVars>>

\* markFlushed()
CallMarkFlushed(sid) ==
  /\ sid \in Allocated
  /\ ReadMuFree(sid)
  /\ sess' = [sess EXCEPT ![sid] = markFlushed(@, now)]
  /\ op' = [name |-> "markFlushed", sid |-> sid, room |-> 0, arg |-> 0]
  /\ UNCHANGED <<chatVars, now, nsess, ReadMu, mr, merged, hubVars, auxVars>>

\* pruneReadListIfIdle(idleFor)
CallPrune(sid, idleFor) ==
  /\ sid \in Allocated
  /\ ReadMuFree(sid)
  /\ sess' = [sess EXCEPT ![sid] = pruneReadListIfIdle(@, idleFor, now)]
  /\ merged' = [merged EXCEPT ![sid] =
                  IF ReadListEmpty(sess'[sid]) THEN [r \in Rooms |-> 0] ELSE @]
  /\ op' = [name |-> "prune", sid |-> sid, room |-> 0, arg |-> idleFor]
  /\ UNCHANGED <<chatVars, now, nsess, ReadMu, mr, hubVars, auxVars>>

NextSession ==
  \/ Tick
  \/ \E d \in Devs, sid \in SessIds, r \in 0..NRooms, x \in 0..MaxMsg : MrCall(d, sid, r, x)
  \/ \E d \in Devs : MrLock(d)
  \/ \E d \in Devs : MrRead(d)
  \/ \E d \in Devs : MrStore(d)
  \/ \E sid \in SessIds : CallMarkFlushed(sid)
  \/ \E sid \in SessIds, th \in 0..MaxIdle : CallPrune(sid, th)

SpecSession == InitSession /\ [][NextSession]_vars

\* ---------------------------------------------------------- FlushUserRead
\* the rooms FlushUserRead issues an UPDATE for
FlushRooms(snap) == {r \in Rooms : snap[r] # 0}

\* FlushUserRead updates room after room and returns at the first error: the
\* set of rooms updated is all of them (nil) or any set that misses one (err)
FlushOutcomes(snap) == SUBSET FlushRooms(snap)

\* mutant of FlushOk: every flush counts as written
FlushOkAlways(snap, done) == TRUE

\* FlushUserRead returned nil: every room of the snapshot was written
FlushOk(snap, done) == done = FlushRooms(snap)

\* last_read_msg_id = CASE WHEN last_read_msg_id < ? THEN ? ELSE last_read_msg_id
\* for the rooms in done; db is the user's row per room
FlushUserRead(db, snap, done) ==
  [r \in Rooms |-> IF r \in done THEN Max(db[r], snap[r]) ELSE db[r]]

\* ------------------------------------------------------------ Go slices
\* append(s, c): in place while the backing array has room, else a new array
\* (capacity 1, then doubled) holding a copy
append(s, c) ==
  IF s.len < Len(s.arr)
  THEN [has |-> TRUE, arr |-> [s.arr EXCEPT ![s.len + 1] = c], len |-> s.len + 1]
  ELSE LET cap == IF Len(s.arr) = 0 THEN 1 ELSE 2 * Len(s.arr) IN
       [has |-> TRUE,
        arr |-> [j \in 1..cap |-> IF j <= s.len THEN s.arr[j]
                                  ELSE IF j = s.len + 1 THEN c ELSE 0],
        len |-> s.len + 1]

\* append(s, c) had to allocate
Grows(s) == s.len >= Len(s.arr)

\* i with s[i] = c, 0 when c is not in s[0:len]
IndexOf(s, c) ==
  IF \E j \in 1..s.len : s.arr[j] = c
  THEN CHOOSE j \in 1..s.len : s.arr[j] = c /\ \A k \in 1..(j - 1) : s.arr[k] # c
  ELSE 0

\* append(s[:i], s[i+1:]...): shifts the tail left inside the same array
RemoveAt(s, i) ==
  [has |-> TRUE,
   arr |-> [j \in 1..Len(s.arr) |-> IF j >= i /\ j < s.len THEN s.arr[j + 1] ELSE s.arr[j]],
   len |-> s.len - 1]

\* mutant of RemoveConn: the list is left as it is
RemoveNothing(s, c) == s

\* the for/if conn == client loop of unregister and of the eviction
RemoveConn(s, c) == IF IndexOf(s, c) = 0 THEN s ELSE RemoveAt(s, IndexOf(s, c))

\* the connections of a slice, in order
Elems(s) == [j \in 1..s.len |-> s.arr[j]]

\* A SendToUser call that copied the slice header of user u keeps reading the
\* array it saw: when userClients[u] moves to another array (or loses its key)
\* the call is left with the old array as it is at that moment.
Detach(st, u, old) ==
  [p \in Senders |->
     IF st[p].pc = "send" /\ st[p].uid = u /\ st[p].live
     THEN [st[p] EXCEPT !.live = FALSE, !.view = old.arr]
     ELSE st[p]]

\* history: the calls in progress for user u have seen userClients[u] change
Touch(st, u) ==
  [p \in Senders |->
     IF st[p].pc = "send" /\ st[p].uid = u THEN [st[p] EXCEPT !.stable = FALSE] ELSE st[p]]

\* no unrecovered panic has ended the process
Alive == ~panicked

\* h.mu in the hands of the Run loop, by the place the loop is at: the read
\* lock is held for the whole broadcast pass (RLock 353, RUnlock 361); the
\* sweep's RLock..RUnlock (243-249) and the Lock..Unlock of the register and
\* unregister cases are single steps
RunHoldsMuInSweep(pc) == pc \in {"bcast", "sweep", "flush", "mark", "prune"}

RunHoldsMu(pc) == pc = "bcast"

\* h.mu in the hands of a gc callback, by the place the callback is at: its
\* RLock..RUnlock (320-323) and Lock..Unlock (341-345) are single steps, so
\* it holds the lock at none of the places between them
TimerHoldsMu(st) == st \in {}

\* h.mu.Lock() can be taken: nobody holds the lock
CanLock == ~RunHoldsMu(hub.pc) /\ \A t \in Conns : ~TimerHoldsMu(timer[t].st)

\* t.Stop(): an armed timer never fires; a callback that has started runs on
StopTimer(tm, t) ==
  IF t # 0 /\ tm[t].st = "armed" THEN [tm EXCEPT ![t] = [NoTimer EXCEPT !.st = "stopped"]] ELSE tm

\* mergeRead for every entry of the map m with a key in rs
RECURSIVE mergeMap(_, _, _, _)
mergeMap(s, m, rs, t) ==
  IF rs = {} THEN s
  ELSE LET r == CHOOSE x \in rs : TRUE IN
       mergeMap(mergeRead(s, r, m[r], t), m, rs \ {r}, t)

\* ------------------------------------------------------------ ServeWS
\* ServeWS, first critical section: reuse or create the user's session, cancel
\* the gc timer
ServeWS(c) ==
  /\ Alive
  /\ cstate[c] = "none"
  /\ CanLock
  /\ LET u == UserOf(c) IN
     /\ IF Sessions[u] = 0
        THEN /\ nsess' = nsess + 1
             /\ sess' = [sess EXCEPT ![nsess + 1] = NewSession(u)]
             /\ Sessions' = [Sessions EXCEPT ![u] = nsess + 1]
             /\ csess' = [csess EXCEPT ![c] = nsess + 1]
             /\ created' = [created EXCEPT ![c] = TRUE]
        ELSE /\ csess' = [csess EXCEPT ![c] = Sessions[u]]
             /\ created' = [created EXCEPT ![c] = FALSE]
             /\ UNCHANGED <<nsess, sess, Sessions>>
     /\ timer' = StopTimer(timer, gcTimers[u])
     /\ gcTimers' = [gcTimers EXCEPT ![u] = 0]
  /\ cstate' = [cstate EXCEPT ![c] = "boot"]
  /\ UNCHANGED <<chatVars, now, sessAux, merged, chanVars, clients, userClients, hub, stu,
                 persisted, panicked, nmsg, histVars, auxVars>>

\* ServeWS: empty := len(sess.ReadList) == 0; load only if created || empty
ServeBootCheck(c) ==
  /\ Alive
  /\ cstate[c] = "boot"
  /\ cstate' = [cstate EXCEPT ![c] =
       IF created[c] \/ ReadListEmpty(sess[csess[c]]) THEN "load" ELSE "regwait"]
  /\ UNCHANGED <<chatVars, now, sessVars, csess, created, chanVars, regVars, timer, hub, stu,
                 persisted, panicked, nmsg, histVars, auxVars>>

\* GetVisibleConversationLastReads returned m (the visible conversations vis):
\* for roomID, lastRead := range m { sess.mergeRead(roomID, lastRead) };
\* an error loads nothing and skips the dirty reset
ServeBootLoad(c, vis, ok) ==
  /\ Alive
  /\ cstate[c] = "load"
  /\ IF ok
     THEN /\ sess' = [sess EXCEPT ![csess[c]] = mergeMap(@, persisted[UserOf(c)], vis, now)]
          /\ merged' = [merged EXCEPT ![csess[c]] =
                 [r \in Rooms |-> IF r \in vis THEN Max(@[r], persisted[UserOf(c)][r]) ELSE @[r]]]
          /\ cstate' = [cstate EXCEPT ![c] = "clean"]
     ELSE /\ vis = {}
          /\ cstate' = [cstate EXCEPT ![c] = "regwait"]
          /\ UNCHANGED <<sess, merged>>
  /\ UNCHANGED <<chatVars, now, nsess, sessAux, csess, created, chanVars, regVars, timer, hub, stu,
                 persisted, panicked, nmsg, histVars, auxVars>>

\* ServeWS: sess.dirty = false after the load
ServeBootClean(c) ==
  /\ Alive
  /\ cstate[c] = "clean"
  /\ sess' = [sess EXCEPT ![csess[c]].dirty = FALSE]
  /\ cstate' = [cstate EXCEPT ![c] = "regwait"]
  /\ UNCHANGED <<chatVars, now, nsess, sessAux, merged, csess, created, chanVars, regVars, timer,
                 hub, stu, persisted, panicked, nmsg, histVars, auxVars>>

\* ------------------------------------------------------------ Run: register
\* case client := <-h.register
Register(c) ==
  /\ Alive
  /\ hub.pc = "idle"
  /\ cstate[c] = "regwait"
  /\ LET u == UserOf(c) IN
     /\ IF Sessions[u] = 0
        THEN /\ nsess' = nsess + 1
             /\ sess' = [sess EXCEPT ![nsess + 1] = NewSession(u)]
             /\ Sessions' = [Sessions EXCEPT ![u] = nsess + 1]
             /\ csess' = [csess EXCEPT ![c] = nsess + 1]
        ELSE /\ csess' = [csess EXCEPT ![c] = Sessions[u]]
             /\ UNCHANGED <<nsess, sess, Sessions>>
     /\ timer' = StopTimer(timer, gcTimers[u])
     /\ gcTimers' = [gcTimers EXCEPT ![u] = 0]
     /\ clients' = clients \cup {c}
     /\ userClients' = [userClients EXCEPT ![u] = append(@, c)]
     /\ stu' = Touch(IF Grows(userClients[u]) THEN Detach(stu, u, userClients[u]) ELSE stu, u)
     /\ atDisc' = [atDisc EXCEPT ![u] = NoDisc]
  /\ cstate' = [cstate EXCEPT ![c] = "running"]
  /\ regd' = regd \cup {c}
  /\ UNCHANGED <<chatVars, now, sessAux, merged, created, chanVars, hub, persisted, panicked, nmsg, enq, last, pumpVars, elog, nunreg, ackDirty>>

\* readPump is in ReadMessage: the read loop calls handleMessage for one frame
\* at a time, and leaves only between two frames
InReadLoop(c) == \A p \in Senders : hreq[p].conn # c

\* mutant of ReadPumpExit: the pumps run before the register has been received
ReadPumpExitEarly(c) ==
  /\ Alive
  /\ cstate[c] \in {"regwait", "running"}
  /\ cstate' = [cstate EXCEPT ![c] = "unregwait"]
  /\ nunreg' = [nunreg EXCEPT ![c] = @ + 1]
  /\ UNCHANGED <<chatVars, now, sessVars, csess, created, chanVars, regVars, timer, hub, stu,
                 persisted, panicked, nmsg, histVars, pumpVars, elog, regd, ackDirty>>

\* mutant of ReadPumpExit: the read loop ends without the send on h.unregister
ReadPumpExitSilent(c) ==
  /\ Alive
  /\ cstate[c] = "running"
  /\ cstate' = [cstate EXCEPT ![c] = "gone"]
  /\ nunreg' = nunreg
  /\ UNCHANGED <<chatVars, now, sessVars, csess, created, chanVars, regVars, timer, hub, stu,
                 persisted, panicked, nmsg, histVars, pumpVars, elog, regd, ackDirty>>

\* readPump: ReadMessage fails (peer gone, timeout, transport closed); the
\* deferred function offers the connection on h.unregister
ReadPumpExit(c) ==
  /\ Alive
  /\ cstate[c] = "running"
  /\ InReadLoop(c)
  /\ cstate' = [cstate EXCEPT ![c] = "unregwait"]
  /\ nunreg' = [nunreg EXCEPT ![c] = @ + 1]
  /\ UNCHANGED <<chatVars, now, sessVars, csess, created, chanVars, regVars, timer, hub, stu,
                 persisted, panicked, nmsg, histVars, pumpVars, elog, regd, ackDirty>>

\* mutant of Unregister: the session is deleted with the user's last connection
UnregisterDeletes(c) ==
  /\ Alive
  /\ hub.pc = "idle"
  /\ cstate[c] = "unregwait"
  /\ LET u == UserOf(c) IN
     /\ IF c \in clients
        THEN /\ clients' = clients \ {c}
             /\ chclosed' = [chclosed EXCEPT ![c] = TRUE]
             /\ userClients' = [userClients EXCEPT ![u] =
                                  IF @.has THEN RemoveConn(@, c) ELSE @]
             /\ stu' = Touch(stu, u)
             /\ atDisc' = [atDisc EXCEPT ![u] =
                   IF userClients'[u].len = 0 /\ Sessions[u] # 0
                   THEN [t |-> c, sid |-> Sessions[u], map |-> sess[Sessions[u]].ReadList,
                         until |-> now + GcDelay]
                   ELSE @]
        ELSE UNCHANGED <<clients, chclosed, userClients, stu, atDisc>>
     /\ timer' = [StopTimer(timer, gcTimers[u]) EXCEPT ![c] =
                    [st |-> "armed", deadline |-> now + GcDelay, tsess |-> 0, snap |-> NoSnap]]
     /\ gcTimers' = [gcTimers EXCEPT ![u] = c]
     /\ Sessions' = [Sessions EXCEPT ![u] = IF userClients'[u].len = 0 THEN 0 ELSE @]
  /\ cstate' = [cstate EXCEPT ![c] = "gone"]
  /\ UNCHANGED <<chatVars, now, sessVars, csess, created, sendq, hub, persisted,
                 panicked, nmsg, enq, last, auxVars>>

\* mutant of Unregister: client.send is left open
UnregisterKeepsOpen(c) ==
  /\ Alive
  /\ hub.pc = "idle"
  /\ cstate[c] = "unregwait"
  /\ LET u == UserOf(c) IN
     /\ IF c \in clients
        THEN /\ clients' = clients \ {c}
             /\ chclosed' = chclosed
             /\ userClients' = [userClients EXCEPT ![u] =
                                  IF @.has THEN RemoveConn(@, c) ELSE @]
             /\ stu' = Touch(stu, u)
             /\ atDisc' = [atDisc EXCEPT ![u] =
                   IF userClients'[u].len = 0 /\ Sessions[u] # 0
                   THEN [t |-> c, sid |-> Sessions[u], map |-> sess[Sessions[u]].ReadList,
                         until |-> now + GcDelay]
                   ELSE @]
        ELSE UNCHANGED <<clients, chclosed, userClients, stu, atDisc>>
     /\ timer' = [StopTimer(timer, gcTimers[u]) EXCEPT ![c] =
                    [st |-> "armed", deadline |-> now + GcDelay, tsess |-> 0, snap |-> NoSnap]]
     /\ gcTimers' = [gcTimers EXCEPT ![u] = c]
  /\ cstate' = [cstate EXCEPT ![c] = "gone"]
  /\ UNCHANGED <<chatVars, now, sessVars, csess, created, sendq, Sessions, hub, persisted,
                 panicked, nmsg, enq, last, auxVars>>

\* mutant of Unregister: the gc timer is started only for a connection that
\* was still in h.clients
UnregisterListedOnly(c) ==
  /\ Alive
  /\ hub.pc = "idle"
  /\ cstate[c] = "unregwait"
  /\ LET u == UserOf(c) IN
     IF c \in clients
     THEN /\ clients' = clients \ {c}
          /\ chclosed' = [chclosed EXCEPT ![c] = TRUE]
          /\ userClients' = [userClients EXCEPT ![u] =
                               IF @.has THEN RemoveConn(@, c) ELSE @]
          /\ stu' = Touch(stu, u)
          /\ atDisc' = [atDisc EXCEPT ![u] =
                IF userClients'[u].len = 0 /\ Sessions[u] # 0
                THEN [t |-> c, sid |-> Sessions[u], map |-> sess[Sessions[u]].ReadList,
                      until |-> now + GcDelay]
                ELSE @]
          /\ timer' = [StopTimer(timer, gcTimers[u]) EXCEPT ![c] =
                         [st |-> "armed", deadline |-> now + GcDelay, tsess |-> 0, snap |-> NoSnap]]
          /\ gcTimers' = [gcTimers EXCEPT ![u] = c]
     ELSE UNCHANGED <<clients, chclosed, userClients, stu, atDisc, timer, gcTimers>>
  /\ cstate' = [cstate EXCEPT ![c] = "gone"]
  /\ UNCHANGED <<chatVars, now, sessVars, csess, created, sendq, Sessions, hub, persisted,
                 panicked, nmsg, enq, last, auxVars>>

\* ---------------------------------------------------------- Run: unregister
\* case client := <-h.unregister: the removal is guarded by membership in
\* h.clients; the gc timer is (re)started in every case
Unregister(c) ==
  /\ Alive
  /\ hub.pc = "idle"
  /\ cstate[c] = "unregwait"
  /\ LET u == UserOf(c) IN
     /\ IF c \in clients
        THEN /\ clients' = clients \ {c}
             /\ chclosed' = [chclosed EXCEPT ![c] = TRUE]
             /\ userClients' = [userClients EXCEPT ![u] =
                                  IF @.has THEN RemoveConn(@, c) ELSE @]
             /\ stu' = Touch(stu, u)
             /\ atDisc' = [atDisc EXCEPT ![u] =
                   IF userClients'[u].len = 0 /\ Sessions[u] # 0
                   THEN [t |-> c, sid |-> Sessions[u], map |-> sess[Sessions[u]].ReadList,
                         until |-> now + GcDelay]
                   ELSE @]
        ELSE UNCHANGED <<clients, chclosed, userClients, stu, atDisc>>
     /\ timer' = [StopTimer(timer, gcTimers[u]) EXCEPT ![c] =
                    [st |-> "armed", deadline |-> now + GcDelay, tsess |-> 0, snap |-> NoSnap]]
     /\ gcTimers' = [gcTimers EXCEPT ![u] = c]
  /\ cstate' = [cstate EXCEPT ![c] = "gone"]
  /\ UNCHANGED <<chatVars, now, sessVars, csess, created, sendq, Sessions, hub, persisted,
                 panicked, nmsg, enq, last, auxVars>>

\* -------------------------------------------------------------- gc timer
\* the timer's 5 minutes have passed: the runtime starts the callback
TimerFire(t) ==
  /\ Alive
  /\ timer[t].st = "armed"
  /\ now >= timer[t].deadline
  /\ timer' = [timer EXCEPT ![t].st = "fired"]
  /\ UNCHANGED <<chatVars, now, sessVars, connVars, chanVars, regVars, hub, stu, persisted,
                 panicked, nmsg, histVars, auxVars>>

\* callback, under RLock: conns := h.userClients[uid]; sess := h.Sessions[uid];
\* return if len(conns) > 0
TimerCheck(t) ==
  /\ Alive
  /\ timer[t].st = "fired"
  /\ timer' = [timer EXCEPT ![t] =
       IF userClients[UserOf(t)].len > 0 THEN [NoTimer EXCEPT !.st = "done"]
       ELSE [timer[t] EXCEPT !.st = "snap", !.tsess = Sessions[UserOf(t)]]]
  /\ UNCHANGED <<chatVars, now, sessVars, connVars, chanVars, regVars, hub, stu, persisted,
                 panicked, nmsg, histVars, auxVars>>

\* callback: snap := sess.snapshotRead() when sess != nil
TimerSnap(t) ==
  /\ Alive
  /\ timer[t].st = "snap"
  /\ timer' = [timer EXCEPT ![t] =
       IF timer[t].tsess # 0 /\ ~ReadListEmpty(sess[timer[t].tsess])
       THEN [timer[t] EXCEPT !.st = "flush", !.snap = snapshotRead(sess[timer[t].tsess])]
       ELSE [timer[t] EXCEPT !.st = "delete"]]
  /\ UNCHANGED <<chatVars, now, sessVars, connVars, chanVars, regVars, hub, stu, persisted,
                 panicked, nmsg, histVars, auxVars>>

\* callback: _ = FlushUserRead(uid, snap), the result dropped
TimerFlush(t, done) ==
  /\ Alive
  /\ timer[t].st = "flush"
  /\ done \in FlushOutcomes(timer[t].snap)
  /\ persisted' = [persisted EXCEPT ![UserOf(t)] = FlushUserRead(@, timer[t].snap, done)]
  /\ timer' = [timer EXCEPT ![t].st = "delete", ![t].snap = NoSnap]
  /\ UNCHANGED <<chatVars, now, sessVars, connVars, chanVars, regVars, hub, stu, panicked, nmsg, histVars, auxVars>>

\* callback, under Lock: delete(h.userClients, uid); delete(h.Sessions, uid);
\* delete(h.gcTimers, uid)
TimerDelete(t) ==
  /\ Alive
  /\ timer[t].st = "delete"
  /\ CanLock
  /\ LET u == UserOf(t) IN
     /\ userClients' = [userClients EXCEPT ![u] = NilSlice]
     /\ stu' = Touch(Detach(stu, u, userClients[u]), u)
     /\ Sessions' = [Sessions EXCEPT ![u] = 0]
     /\ gcTimers' = [gcTimers EXCEPT ![u] = 0]
  /\ timer' = [timer EXCEPT ![t] = [NoTimer EXCEPT !.st = "done"]]
  /\ UNCHANGED <<chatVars, now, sessVars, connVars, chanVars, clients, hub, persisted, panicked, nmsg,
                 histVars, auxVars>>

\* ------------------------------------------------------------- broadcast
\* case message := <-h.broadcast: RLock, the pass over h.clients begins
BroadcastStart ==
  /\ Alive
  /\ hub.pc = "idle"
  /\ nmsg < MaxSends
  /\ nmsg' = nmsg + 1
  /\ hub' = [IdleHub EXCEPT !.pc = "bcast", !.todo = clients, !.msg = nmsg + 1]
  /\ UNCHANGED <<chatVars, now, sessVars, connVars, chanVars, regVars, timer, stu, persisted, panicked,
                 histVars, auxVars>>

\* select { case client.send <- message: default: toRemove = append(toRemove, client) }
BroadcastSend(c) ==
  /\ Alive
  /\ hub.pc = "bcast"
  /\ c \in hub.todo
  /\ IF Len(sendq[c]) < QueueCap
     THEN /\ sendq' = [sendq EXCEPT ![c] = Append(@, hub.msg)]
          /\ enq' = [enq EXCEPT ![c] = @ \cup {hub.msg}]
          /\ hub' = [hub EXCEPT !.todo = @ \ {c}]
     ELSE /\ hub' = [hub EXCEPT !.todo = @ \ {c}, !.rm = @ \cup {c}]
          /\ UNCHANGED <<sendq, enq>>
  /\ elog' = [elog EXCEPT ![c] = IF Len(sendq[c]) < QueueCap THEN Append(@, hub.msg) ELSE @]
  /\ UNCHANGED <<chatVars, now, sessVars, connVars, chclosed, regVars, timer, stu, persisted,
                 panicked, nmsg, last, atDisc, pumpVars, nunreg, regd, ackDirty>>

\* RUnlock at the end of the pass
BroadcastPassEnd ==
  /\ Alive
  /\ hub.pc = "bcast"
  /\ hub.todo = {}
  /\ hub' = IF hub.rm = {} THEN IdleHub ELSE [hub EXCEPT !.pc = "evict"]
  /\ UNCHANGED <<chatVars, now, sessVars, connVars, chanVars, regVars, timer, stu, persisted,
                 panicked, nmsg, histVars, auxVars>>

\* the body of for _, client := range toRemove, on the registry and channel
\* state st
EvictOne(st, c) ==
  IF c \notin st.clients THEN st
  ELSE LET u == UserOf(c)
           s1 == IF st.uc[u].has THEN RemoveConn(st.uc[u], c) ELSE st.uc[u]
           gone == st.uc[u].has /\ s1.len = 0
       IN [clients |-> st.clients \ {c},
           uc |-> [st.uc EXCEPT ![u] = IF gone THEN NilSlice ELSE s1],
           stu |-> Touch(IF gone THEN Detach(st.stu, u, s1) ELSE st.stu, u),
           q |-> [st.q EXCEPT ![c] = IF @ # <<>> THEN Tail(@) ELSE @],
           closed |-> [st.closed EXCEPT ![c] = TRUE]]

RECURSIVE EvictAll(_, _)
EvictAll(st, order) ==
  IF order = <<>> THEN st ELSE EvictAll(EvictOne(st, Head(order)), Tail(order))

\* the orders in which toRemove may list the connections of a set
Orders(S) == {o \in [1..Cardinality(S) -> S] : \A i, j \in 1..Cardinality(S) : i # j => o[i] # o[j]}

\* if len(toRemove) > 0 { Lock; evict every listed connection; Unlock }
BroadcastEvict(order) ==
  /\ Alive
  /\ hub.pc = "evict"
  /\ order \in Orders(hub.rm)
  /\ LET st == EvictAll([clients |-> clients, uc |-> userClients, stu |-> stu,
                         q |-> sendq, closed |-> chclosed], order) IN
     /\ clients' = st.clients
     /\ userClients' = st.uc
     /\ stu' = st.stu
     /\ sendq' = st.q
     /\ chclosed' = st.closed
  /\ hub' = IdleHub
  /\ UNCHANGED <<chatVars, now, sessVars, connVars, Sessions, gcTimers, timer, persisted, panicked, nmsg,
                 histVars, auxVars>>

\* ------------------------------------------------------------ SendToUser
\* RLock; clients := h.userClients[userID]; RUnlock
StuBegin(u, m) ==
  IF userClients[u].len = 0 THEN IdleStu
  ELSE [pc |-> "send", uid |-> u, msg |-> m, live |-> TRUE, view |-> <<>>,
        n |-> userClients[u].len, i |-> 1,
        start |-> Elems(userClients[u]), full |-> {}, stable |-> TRUE]

\* a call of SendToUser(u, msg) from outside the hub, with a payload of its own
SendToUser(p, u) ==
  /\ Alive
  /\ stu[p].pc = "idle"
  /\ nmsg < MaxSends
  /\ nmsg' = nmsg + 1
  /\ stu' = [stu EXCEPT ![p] = StuBegin(u, nmsg + 1)]
  /\ UNCHANGED <<chatVars, now, sessVars, connVars, chanVars, regVars, timer, hub, persisted, panicked,
                 histVars, auxVars>>

\* the connection the call reads at its index i
StuTarget(p) ==
  IF stu[p].live THEN userClients[stu[p].uid].arr[stu[p].i] ELSE stu[p].view[stu[p].i]

\* mutant of AfterSend: a full queue ends the fan-out
AfterSendAbort(p, sent) ==
  IF stu[p].i >= stu[p].n \/ ~sent THEN IdleStu
  ELSE [stu[p] EXCEPT !.i = @ + 1]

\* the call after its select on connection i: on to the next one, or return
AfterSend(p, sent) ==
  IF stu[p].i >= stu[p].n THEN IdleStu
  ELSE [stu[p] EXCEPT !.i = @ + 1]

\* select { case client.send <- msg: default: }: a send on a closed channel
\* panics, a full channel takes the default branch
SendToUserStep(p) ==
  /\ Alive
  /\ stu[p].pc = "send"
  /\ LET c == StuTarget(p)
         sent == Len(sendq[c]) < QueueCap
         full == IF sent THEN stu[p].full ELSE stu[p].full \cup {c}
         after == AfterSend(p, sent)
         nxt == IF after.pc = "idle" THEN after ELSE [after EXCEPT !.full = full]
     IN
     IF chclosed[c]
     THEN /\ panicked' = TRUE
          /\ UNCHANGED <<sendq, stu, enq, last, elog>>
     ELSE /\ sendq' = [sendq EXCEPT ![c] = IF sent THEN Append(@, stu[p].msg) ELSE @]
          /\ enq' = [enq EXCEPT ![c] = IF sent THEN @ \cup {stu[p].msg} ELSE @]
          /\ elog' = [elog EXCEPT ![c] = IF sent THEN Append(@, stu[p].msg) ELSE @]
          /\ stu' = [stu EXCEPT ![p] = nxt]
          /\ last' = IF nxt.pc = "idle"
                     THEN [last EXCEPT ![p] = [msg |-> stu[p].msg, start |-> stu[p].start,
                                               full |-> full, stable |-> stu[p].stable]]
                     ELSE last
          /\ UNCHANGED panicked
  /\ UNCHANGED <<chatVars, now, sessVars, connVars, chclosed, regVars, timer, hub, persisted, nmsg, atDisc,
                 pumpVars, nunreg, regd, ackDirty>>

\* ------------------------------------------------------------ writePump
\* ServeWS starts the pumps after its send on h.register has been received
Spawned(c) == cstate[c] \in {"running", "unregwait", "gone"}

\* writePump: case message, ok := <-c.send with ok true; w.Write(message)
WritePump(c) ==
  /\ Alive
  /\ Spawned(c)
  /\ wp[c].pc = "wait"
  /\ sendq[c] # <<>>
  /\ wlog' = [wlog EXCEPT ![c] = Append(@, Head(sendq[c]))]
  /\ sendq' = [sendq EXCEPT ![c] = Tail(@)]
  /\ wp' = [wp EXCEPT ![c] = [pc |-> "len", n |-> 0]]
  /\ UNCHANGED <<chatVars, now, sessVars, connVars, chclosed, regVars, timer, hub, stu, persisted,
                 panicked, nmsg, histVars, elog, nunreg, regd, ackDirty>>

\* writePump: n := len(c.send); with n = 0 the frame is closed at once
WritePumpLen(c) ==
  /\ Alive
  /\ wp[c].pc = "len"
  /\ wp' = [wp EXCEPT ![c] = IF sendq[c] = <<>> THEN IdleWp
                             ELSE [pc |-> "drain", n |-> Len(sendq[c])]]
  /\ UNCHANGED <<chatVars, now, sessVars, hubVars, wlog, elog, nunreg, regd, ackDirty>>

\* mutant of WritePumpDrain: the payload written stays in the channel
WritePumpDrainPeek(c) ==
  /\ Alive
  /\ wp[c].pc = "drain"
  /\ sendq[c] # <<>> \/ chclosed[c]
  /\ IF sendq[c] # <<>>
     THEN /\ wlog' = [wlog EXCEPT ![c] = Append(@, Head(sendq[c]))]
          /\ sendq' = sendq
     ELSE UNCHANGED <<wlog, sendq>>
  /\ wp' = [wp EXCEPT ![c] = IF wp[c].n = 1 THEN IdleWp ELSE [@ EXCEPT !.n = wp[c].n - 1]]
  /\ UNCHANGED <<chatVars, now, sessVars, connVars, chclosed, regVars, timer, hub, stu, persisted,
                 panicked, nmsg, histVars, elog, nunreg, regd, ackDirty>>

\* writePump: w.Write(<-c.send), n times; a receive on a closed and empty
\* channel yields nil at once and writes nothing
WritePumpDrain(c) ==
  /\ Alive
  /\ wp[c].pc = "drain"
  /\ sendq[c] # <<>> \/ chclosed[c]
  /\ IF sendq[c] # <<>>
     THEN /\ wlog' = [wlog EXCEPT ![c] = Append(@, Head(sendq[c]))]
          /\ sendq' = [sendq EXCEPT ![c] = Tail(@)]
     ELSE UNCHANGED <<wlog, sendq>>
  /\ wp' = [wp EXCEPT ![c] = IF wp[c].n = 1 THEN IdleWp ELSE [@ EXCEPT !.n = wp[c].n - 1]]
  /\ UNCHANGED <<chatVars, now, sessVars, connVars, chclosed, regVars, timer, hub, stu, persisted,
                 panicked, nmsg, histVars, elog, nunreg, regd, ackDirty>>

\* writePump returns: the channel is closed and empty (!ok), NextWriter
\* failed on a message just received (took), w.Close() or the ping failed.
\* The deferred function closes the transport; nothing is sent to the hub.
WritePumpExit(c, took) ==
  /\ Alive
  /\ Spawned(c)
  /\ wp[c].pc # "exit"
  /\ took => (wp[c].pc = "wait" /\ sendq[c] # <<>>)
  /\ sendq' = [sendq EXCEPT ![c] = IF took THEN Tail(@) ELSE @]
  /\ wp' = [wp EXCEPT ![c] = [pc |-> "exit", n |-> 0]]
  /\ UNCHANGED <<chatVars, now, sessVars, connVars, chclosed, regVars, timer, hub, stu, persisted,
                 panicked, nmsg, histVars, wlog, elog, nunreg, regd, ackDirty>>

\* ------------------------------------------------------------- read ack
\* mutant of ReadAck: the cursor is kept per room, for every user of the room
ReadAckByRoom(c, roomID, lastRead) ==
  /\ Alive
  /\ cstate[c] = "running"
  /\ roomID # 0 /\ lastRead # 0
  /\ csess[c] # 0
  /\ sess' = [sid \in SessIds |->
               IF sid \in Allocated THEN mergeRead(sess[sid], roomID, lastRead, now) ELSE sess[sid]]
  /\ merged' = [merged EXCEPT ![csess[c]][roomID] = Max(@, lastRead)]
  /\ ackDirty' = [ackDirty EXCEPT ![csess[c]] = @ \/ Newer(lastRead, sess[csess[c]].ReadList[roomID])]
  /\ UNCHANGED <<chatVars, now, nsess, sessAux, hubVars, pumpVars, elog, nunreg, regd>>

\* onMessage, type read_ack: client.session.mergeRead(ack.RoomID, ack.LastReadMsgID)
ReadAck(c, roomID, lastRead) ==
  /\ Alive
  /\ cstate[c] = "running"
  /\ InReadLoop(c)
  /\ roomID # 0 /\ lastRead # 0
  /\ csess[c] # 0
  /\ sess' = [sess EXCEPT ![csess[c]] = mergeRead(@, roomID, lastRead, now)]
  /\ merged' = [merged EXCEPT ![csess[c]][roomID] = Max(@, lastRead)]
  /\ ackDirty' = [ackDirty EXCEPT ![csess[c]] = @ \/ Newer(lastRead, sess[csess[c]].ReadList[roomID])]
  /\ UNCHANGED <<chatVars, now, nsess, sessAux, hubVars, pumpVars, elog, nunreg, regd>>

\* --------------------------------------------------------- send request
\* what the database answers to the queries of one send request: the room row
\* (found, type), the room_users rows, friend.status = 2 in either direction,
\* a mute in force for the sender, and the query that fails, if any
DbAnswers ==
  {db \in [found : BOOLEAN, type : {1, 2}, users : SUBSET Users, blocked : BOOLEAN,
           muted : BOOLEAN, err : {"none", "check", "save", "members"}] :
     \* no query but the first is made for a room that is not found, and
     \* the friend rows are read for a private room only
     /\ ~db.found => (db.type = 1 /\ db.users = {} /\ ~db.blocked /\ ~db.muted /\ db.err = "none")
     /\ db.blocked => db.type = 1}

\* the send requests read so far
Requests == {m \in 1..MaxSends : reqs[m].conn # 0}

\* MessageService.SaveMessage: checkMuteStatus (the sender's room_users row
\* must exist, no mute in force), then messageDAO.Create
SaveMessage(db, sender) ==
  sender \in db.users /\ ~db.muted /\ db.err # "save"

\* onMessage for a send request, up to the fan-out: "silent" is a return with
\* a log line only, "error" a sendWsError to the sender, "saved" a return after
\* GetRoomMembers failed, "message" the fan-out of the saved message
Outcome(db, sender) ==
  IF ~db.found THEN "silent"
  ELSE IF db.type = 1 /\ db.err = "check" THEN "silent"
  ELSE IF db.type = 1 /\ db.blocked THEN "error"
  ELSE IF db.type = 2 /\ db.err = "check" THEN "silent"
  ELSE IF db.type = 2 /\ sender \notin db.users THEN "error"
  ELSE IF ~SaveMessage(db, sender) THEN "error"
  ELSE IF db.err = "members" THEN "saved"
  ELSE "message"

\* the request is one of: unknown room, sender not a member, blocked (private
\* room), muted, SaveMessage error
Fails(db, sender) ==
  \/ ~db.found
  \/ sender \notin db.users
  \/ db.type = 1 /\ db.blocked
  \/ db.muted
  \/ db.err = "save"

\* readPump of connection c reads a send request and onMessage runs it up to
\* the first SendToUser: the queries, SaveMessage (the new row has the id
\* given), client.session.mergeRead(room.ID, savedMsg.ID), GetRoomMembers
\* (the rows in the order given)
SendReq(p, c, db, order, id) ==
  /\ Alive
  /\ cstate[c] = "running"
  /\ InReadLoop(c)
  /\ hreq[p].pc = "idle"
  /\ nmsg < MaxSends
  /\ Cardinality(Requests) < MaxReqs
  /\ order \in Orders(db.users)
  \* the order of the rows and the new id are read on the "message" path only
  /\ (Outcome(db, UserOf(c)) = "message" \/ order = CHOOSE o \in Orders(db.users) : TRUE)
  /\ (SaveMessage(db, UserOf(c)) \/ id = 1)
  /\ LET m == nmsg + 1
         sender == UserOf(c)
         kind == Outcome(db, sender)
         saved == kind \in {"saved", "message"}
     IN
     /\ nmsg' = m
     /\ reqs' = [reqs EXCEPT ![m] =
          [conn |-> c, kind |-> kind, fail |-> Fails(db, sender),
           valid |-> db.found /\ sender \in db.users /\ ~db.muted /\ ~(db.type = 1 /\ db.blocked),
           saved |-> db.found /\ SaveMessage(db, sender),
           members |-> IF kind = "message" THEN db.users ELSE {},
           called |-> <<>>]]
     /\ hreq' = [hreq EXCEPT ![p] =
          IF kind = "error" THEN [pc |-> "call", conn |-> c, msg |-> m, todo |-> <<sender>>]
          ELSE IF kind = "message" THEN [pc |-> "call", conn |-> c, msg |-> m, todo |-> order]
          ELSE IdleReq]
     /\ IF saved /\ csess[c] # 0
        THEN /\ sess' = [sess EXCEPT ![csess[c]] = mergeRead(@, 1, id, now)]
             /\ merged' = [merged EXCEPT ![csess[c]][1] = Max(@, id)]
        ELSE UNCHANGED <<sess, merged>>
  /\ UNCHANGED <<now, nsess, sessAux, connVars, chanVars, regVars, timer, hub, stu, persisted,
                 panicked, histVars, auxVars, verifyVars>>

\* the next SendToUser of the request: sendWsError's single call, or the next
\* pass of for _, memberID := range members
HandlerCall(p) ==
  /\ Alive
  /\ hreq[p].pc = "call"
  /\ hreq[p].todo # <<>>
  /\ stu[p].pc = "idle"
  /\ stu' = [stu EXCEPT ![p] = StuBegin(Head(hreq[p].todo), hreq[p].msg)]
  /\ hreq' = [hreq EXCEPT ![p].todo = Tail(@)]
  /\ reqs' = [reqs EXCEPT ![hreq[p].msg].called = Append(@, Head(hreq[p].todo))]
  /\ UNCHANGED <<now, sessVars, connVars, chanVars, regVars, timer, hub, persisted, panicked,
                 nmsg, histVars, auxVars, verifyVars>>

\* the last SendToUser has returned: onMessage returns to the read loop
HandlerReturn(p) ==
  /\ Alive
  /\ hreq[p].pc = "call"
  /\ hreq[p].todo = <<>>
  /\ stu[p].pc = "idle"
  /\ hreq' = [hreq EXCEPT ![p] = IdleReq]
  /\ UNCHANGED <<now, sessVars, hubVars, auxVars, reqs, verifyVars>>

\* ------------------------------------------------------------ flush sweep
\* case <-flushTicker.C: the sessions copied under RLock
SweepStart ==
  /\ Alive
  /\ hub.pc = "idle"
  /\ hub' = IF \A u \in Users : Sessions[u] = 0 THEN IdleHub
            ELSE [IdleHub EXCEPT !.pc = "sweep", !.all = {Sessions[u] : u \in Users} \ {0},
                                 !.todo = {Sessions[u] : u \in Users} \ {0}]
  /\ UNCHANGED <<chatVars, now, sessVars, connVars, chanVars, regVars, timer, stu, persisted,
                 panicked, nmsg, histVars, auxVars>>

\* snap, dirty := sess.snapshotReadAndDirty()
SweepSnap(sid) ==
  /\ Alive
  /\ hub.pc = "sweep"
  /\ sid \in hub.todo
  /\ LET r == snapshotReadAndDirty(sess[sid]) IN
     hub' = [hub EXCEPT !.cur = sid, !.todo = @ \ {sid}, !.snap = r.snap,
                        !.pc = IF r.dirty THEN "flush" ELSE "prune"]
  /\ UNCHANGED <<chatVars, now, sessVars, connVars, chanVars, regVars, timer, stu, persisted,
                 panicked, nmsg, histVars, auxVars>>

\* err := FlushUserRead(sess.UserID, snap)
SweepFlush(done) ==
  /\ Alive
  /\ hub.pc = "flush"
  /\ done \in FlushOutcomes(hub.snap)
  /\ persisted' = [persisted EXCEPT ![sess[hub.cur].UserID] = FlushUserRead(@, hub.snap, done)]
  /\ hub' = [hub EXCEPT !.pc = IF FlushOk(hub.snap, done) THEN "mark" ELSE "prune",
                        !.snap = NoSnap, !.err = ~FlushOk(hub.snap, done)]
  /\ UNCHANGED <<chatVars, now, sessVars, connVars, chanVars, regVars, timer, stu, panicked, nmsg, histVars, auxVars>>

\* if err == nil { sess.markFlushed() }
SweepMark ==
  /\ Alive
  /\ hub.pc = "mark"
  /\ sess' = [sess EXCEPT ![hub.cur] = markFlushed(@, now)]
  /\ hub' = [hub EXCEPT !.pc = "prune"]
  /\ ackDirty' = [ackDirty EXCEPT ![hub.cur] = FALSE]
  /\ UNCHANGED <<chatVars, now, nsess, sessAux, merged, connVars, chanVars, regVars, timer, stu,
                 persisted, panicked, nmsg, histVars, pumpVars, elog, nunreg, regd>>

\* sess.pruneReadListIfIdle(10 * time.Minute), then the next session
SweepPrune ==
  /\ Alive
  /\ hub.pc = "prune"
  /\ sess' = [sess EXCEPT ![hub.cur] = pruneReadListIfIdle(@, IdleFor, now)]
  /\ merged' = [merged EXCEPT ![hub.cur] =
                  IF ReadListEmpty(sess'[hub.cur]) THEN NoSnap ELSE @]
  /\ hub' = IF hub.todo = {} THEN IdleHub ELSE [hub EXCEPT !.pc = "sweep", !.cur = 0, !.err = FALSE]
  /\ UNCHANGED <<chatVars, now, nsess, sessAux, connVars, chanVars, regVars, timer, stu,
                 persisted, panicked, nmsg, histVars, auxVars>>

\* ------------------------------------------------- VerifyCodeService
\* the hub and the sessions, untouched by the VerifyCodeService
hubState == <<now, sessVars, hubVars, auxVars, hreq, reqs>>

\* SendCode up to its SetNX on the cooldown key: an empty identifier or
\* purpose and a Redis error (ok false) return an error; a cooldown key that
\* exists returns Code "" with no error; else the cooldown key is set
SendCode(q, purpose, identifier, ok) ==
  /\ vc[q].pc = "idle"
  /\ LET id == normalizeIdentifier(identifier)
         k == <<purpose, id>>
     IN
     IF id = <<>> \/ purpose = "" \/ ~ok
     THEN /\ vret' = [ident |-> <<>>, res |-> "error", code |-> 0]
          /\ UNCHANGED <<rdb, vc, vh>>
     ELSE IF rdb.cd[k]
     THEN /\ vret' = [ident |-> identifier, res |-> "empty", code |-> 0]
          /\ UNCHANGED <<rdb, vc, vh>>
     ELSE /\ vh.nissue < MaxIssues
          /\ rdb' = [rdb EXCEPT !.cd[k] = TRUE]
          /\ vc' = [vc EXCEPT ![q] = [pc |-> "set", key |-> k, code |-> 0, gen |-> 0]]
          /\ vh' = [vh EXCEPT !.nissue = @ + 1]
          /\ UNCHANGED vret
  /\ UNCHANGED hubState

\* SendCode: generate6Digits, then Set on the code key with the ttl; a Redis
\* error returns the error, the cooldown key left in place
SendCodeSet(q, code, ok) ==
  /\ vc[q].pc = "set"
  /\ LET k == vc[q].key IN
     IF ok
     THEN /\ rdb' = [rdb EXCEPT !.code[k] = code]
          /\ vh' = [vh EXCEPT !.gen[k] = @ + 1]
          /\ vret' = [ident |-> <<>>, res |-> "code", code |-> code]
     ELSE /\ vret' = [ident |-> <<>>, res |-> "error", code |-> 0]
          /\ UNCHANGED <<rdb, vh>>
  /\ vc' = [vc EXCEPT ![q] = IdleVc]
  /\ UNCHANGED hubState

\* VerifyCode up to its Get: an empty identifier, purpose or code (0) and a
\* Redis error return an error; a missing key (redis.Nil) or another value
\* returns false
VerifyCode(q, purpose, identifier, code, ok) ==
  /\ vc[q].pc = "idle"
  /\ \A k \in Keys, g \in 1..MaxIssues : vh.accepts[k][g] < MaxAccepts
  /\ LET id == normalizeIdentifier(identifier)
         k == <<purpose, id>>
     IN
     IF id = <<>> \/ purpose = "" \/ code = 0 \/ ~ok
     THEN /\ vret' = [ident |-> <<>>, res |-> "error", code |-> code]
          /\ UNCHANGED vc
     ELSE IF rdb.code[k] = 0 \/ rdb.code[k] # code
     THEN /\ vret' = [ident |-> <<>>, res |-> "false", code |-> code]
          /\ UNCHANGED vc
     ELSE /\ vc' = [vc EXCEPT ![q] = [pc |-> "del", key |-> k, code |-> code, gen |-> vh.gen[k]]]
          /\ UNCHANGED vret
  /\ UNCHANGED <<rdb, vh, hubState>>

\* VerifyCode: _ = s.rdb.Del(ctx, key).Err(); return true, nil
VerifyCodeDel(q, ok) ==
  /\ vc[q].pc = "del"
  /\ LET k == vc[q].key IN
     /\ rdb' = IF ok THEN [rdb EXCEPT !.code[k] = 0] ELSE rdb
     /\ vret' = [ident |-> <<>>, res |-> "true", code |-> vc[q].code]
     /\ vh' = [vh EXCEPT !.accepts[k][vc[q].gen] = @ + 1]
  /\ vc' = [vc EXCEPT ![q] = IdleVc]
  /\ UNCHANGED hubState

\* Redis drops the cooldown key when its 60 seconds have passed
ExpireCooldown(k) ==
  /\ rdb.cd[k]
  /\ rdb' = [rdb EXCEPT !.cd[k] = FALSE]
  /\ UNCHANGED <<vc, vret, vh, hubState>>

\* Redis drops the code key when its 5 minutes have passed
ExpireCode(k) ==
  /\ rdb.code[k] # 0
  /\ rdb' = [rdb EXCEPT !.code[k] = 0]
  /\ UNCHANGED <<vc, vret, vh, hubState>>

\* the VerifyCodeService under concurrent callers
NextVerify ==
  \/ \E q \in Callers, pu \in Purposes, i \in Identifiers, ok \in BOOLEAN : SendCode(q, pu, i, ok)
  \/ \E q \in Callers, code \in Codes, ok \in BOOLEAN : SendCodeSet(q, code, ok)
  \/ \E q \in Callers, pu \in Purposes, i \in Identifiers, code \in 0..NCodes, ok \in BOOLEAN :
       VerifyCode(q, pu, i, code, ok)
  \/ \E q \in Callers, ok \in BOOLEAN : VerifyCodeDel(q, ok)
  \/ \E k \in Keys : ExpireCooldown(k)
  \/ \E k \in Keys : ExpireCode(k)

SpecVerify == Init /\ [][NextVerify]_vars

\* ------------------------------------------------------------ the program
Next ==
  \/ Tick
  \/ \E c \in Conns : ServeWS(c)
  \/ \E c \in Conns : ServeBootCheck(c)
  \/ \E c \in Conns, vis \in SUBSET Rooms, ok \in BOOLEAN : ServeBootLoad(c, vis, ok)
  \/ \E c \in Conns : ServeBootClean(c)
  \/ \E c \in Conns : Register(c)
  \/ \E c \in Conns : ReadPumpExit(c)
  \/ \E c \in Conns : Unregister(c)
  \/ \E t \in Conns : TimerFire(t)
  \/ \E t \in Conns : TimerCheck(t)
  \/ \E t \in Conns : TimerSnap(t)
  \/ \E t \in Conns, done \in SUBSET Rooms : TimerFlush(t, done)
  \/ \E t \in Conns : TimerDelete(t)
  \/ BroadcastStart
  \/ \E c \in Conns : BroadcastSend(c)
  \/ BroadcastPassEnd
  \/ \E order \in UNION {[1..k -> Conns] : k \in 0..(MaxConns + NPeers)} : BroadcastEvict(order)
  \/ \E p \in Senders, u \in Users : SendToUser(p, u)
  \/ \E p \in Senders : SendToUserStep(p)
  \/ \E c \in Conns : WritePump(c)
  \/ \E c \in Conns : WritePumpLen(c)
  \/ \E c \in Conns : WritePumpDrain(c)
  \/ \E c \in Conns, took \in BOOLEAN : WritePumpExit(c, took)
  \/ \E c \in Conns, r \in Rooms, x \in MsgIds : ReadAck(c, r, x)
  \/ \E p \in Senders, c \in Conns, db \in DbAnswers, id \in MsgIds :
       \E order \in Orders(db.users) : SendReq(p, c, db, order, id)
  \/ \E p \in Senders : HandlerCall(p)
  \/ \E p \in Senders : HandlerReturn(p)
  \/ SweepStart
  \/ \E sid \in SessIds : SweepSnap(sid)
  \/ \E done \in SUBSET Rooms : SweepFlush(done)
  \/ SweepMark
  \/ SweepPrune
  \/ NextVerify

Spec == Init /\ [][Next]_vars

\* ServeWS after its first critical section: the bootstrap load
Boot ==
  \/ \E c \in Conns : ServeBootCheck(c)
  \/ \E c \in Conns, vis \in SUBSET Rooms, ok \in BOOLEAN : ServeBootLoad(c, vis, ok)
  \/ \E c \in Conns : ServeBootClean(c)

\* the connection lifecycle: ServeWS (the handler's goroutine)
Connect ==
  \/ \E c \in Devices : ServeWS(c)
  \/ Boot

\* the same with the connections of Live only
ConnectLive ==
  \/ \E c \in Live : ServeWS(c)
  \/ Boot

\* the Run loop's register and unregister cases, and readPump's exit
Lifecycle ==
  \/ \E c \in Conns : Register(c)
  \/ \E c \in Conns : ReadPumpExit(c)
  \/ \E c \in Conns : Unregister(c)

\* the gc timer and its callback
Reclaim ==
  \/ Tick
  \/ \E t \in Conns : TimerFire(t)
  \/ \E t \in Conns : TimerCheck(t)
  \/ \E t \in Conns : TimerSnap(t)
  \/ \E t \in Conns, done \in SUBSET Rooms : TimerFlush(t, done)
  \/ \E t \in Conns : TimerDelete(t)

\* the Run loop's broadcast case
Broadcast ==
  \/ BroadcastStart
  \/ \E c \in Conns : BroadcastSend(c)
  \/ BroadcastPassEnd
  \/ \E order \in UNION {[1..k -> Conns] : k \in 0..(MaxConns + NPeers)} : BroadcastEvict(order)

\* the Run loop's flush ticker case
Sweep ==
  \/ SweepStart
  \/ \E sid \in SessIds : SweepSnap(sid)
  \/ \E done \in SUBSET Rooms : SweepFlush(done)
  \/ SweepMark
  \/ SweepPrune

\* the registries: connections coming and going, evictions, reclamation
NextHub ==
  \/ ConnectLive \/ Lifecycle \/ Reclaim \/ Broadcast
  \/ \E c \in Conns, r \in Rooms, x \in MsgIds : ReadAck(c, r, x)

SpecHub == Init /\ [][NextHub]_vars

\* the read cursors: read acks, the flush sweep, reclamation
NextFlush ==
  \/ ConnectLive \/ Lifecycle \/ Reclaim \/ Sweep
  \/ \E c \in Conns, r \in Rooms, x \in MsgIds : ReadAck(c, r, x)

SpecFlush == Init /\ [][NextFlush]_vars

\* the fan-out: SendToUser against the Run loop and the write pumps
NextSend ==
  \/ ConnectLive \/ Lifecycle \/ Broadcast
  \/ \E p \in Senders, u \in Users : SendToUser(p, u)
  \/ \E p \in Senders : SendToUserStep(p)
  \/ \E c \in Conns : WritePump(c)
  \/ \E c \in Conns : WritePumpLen(c)
  \/ \E c \in Conns : WritePumpDrain(c)
  \/ \E c \in Conns, took \in BOOLEAN : WritePumpExit(c, took)

SpecSend == Init /\ [][NextSend]_vars

\* reclamation with every connection: register, unregister, the gc timer, read acks
NextReclaim ==
  \/ Connect \/ Lifecycle \/ Reclaim
  \/ \E c \in Conns, r \in Rooms, x \in MsgIds : ReadAck(c, r, x)

SpecReclaim == Init /\ [][NextReclaim]_vars

\* two devices of one user and the connection of another user
ChatConns == Live \cup Peers

\* ServeWS for the connections of ChatConns
ConnectChat ==
  \/ \E c \in ChatConns : ServeWS(c)
  \/ Boot

\* the frames of the clients: connections coming and going, read acks
NextChat ==
  \/ ConnectChat \/ Lifecycle
  \/ \E c \in Conns, r \in Rooms, x \in MsgIds : ReadAck(c, r, x)

SpecChat == Init /\ [][NextChat]_vars

\* one connection for each of two users
SweepConns == {1} \cup Peers

\* ServeWS for the connections of SweepConns
ConnectSweep ==
  \/ \E c \in SweepConns : ServeWS(c)
  \/ Boot

\* the flush sweep over the sessions of two users: read acks, the sweep, time
NextSweep ==
  \/ Tick
  \/ ConnectSweep \/ Lifecycle \/ Sweep
  \/ \E c \in Conns, r \in Rooms, x \in MsgIds : ReadAck(c, r, x)

SpecSweep == Init /\ [][NextSweep]_vars

\* the read cursors on their way to the database: read acks, the sweep, reclamation
NextPersist ==
  \/ ConnectLive \/ Lifecycle \/ Reclaim \/ Sweep
  \/ \E c \in Conns, r \in Rooms, x \in MsgIds : ReadAck(c, r, x)

\* a FlushUserRead of the sweep that returns nil
SweepFlushOk == \E done \in SUBSET Rooms : SweepFlush(done) /\ FlushOk(hub.snap, done)

\* a FlushUserRead of a gc callback that returns nil
TimerFlushOk ==
  \E t \in Conns, done \in SUBSET Rooms : TimerFlush(t, done) /\ FlushOk(timer[t].snap, done)

\* the steps of the gc callbacks once their timers have fired
Callback ==
  \/ \E t \in Conns : TimerFire(t)
  \/ \E t \in Conns : TimerCheck(t)
  \/ \E t \in Conns : TimerSnap(t)
  \/ \E t \in Conns, done \in SUBSET Rooms : TimerFlush(t, done)
  \/ \E t \in Conns : TimerDelete(t)

\* The flush ticker keeps firing and a sweep runs to its end; the Run loop's
\* select takes a register or unregister that is offered again and again
\* (it chooses at random among the cases that are ready); every ServeWS call
\* goes on; a timer that is due fires and its callback runs to its end; a
\* flush that is tried again and again succeeds in the end.
PersistFairness ==
  /\ WF_vars(Sweep)
  /\ \A c \in Conns : SF_vars(Register(c) \/ Unregister(c))
  /\ \A c \in Conns : WF_vars(ServeBootCheck(c) \/ ServeBootClean(c)
                                \/ \E vis \in SUBSET Rooms, ok \in BOOLEAN : ServeBootLoad(c, vis, ok))
  /\ WF_vars(Callback)
  /\ SF_vars(SweepFlushOk)
  /\ SF_vars(TimerFlushOk)

SpecPersist == Init /\ [][NextPersist]_vars /\ PersistFairness

\* the write pumps
Pumps ==
  \/ \E c \in Conns : WritePump(c)
  \/ \E c \in Conns : WritePumpLen(c)
  \/ \E c \in Conns : WritePumpDrain(c)
  \/ \E c \in Conns, took \in BOOLEAN : WritePumpExit(c, took)

\* ServeWS for one connection
ConnectOne ==
  \/ ServeWS(1)
  \/ Boot

\* a connection from upgrade to reclamation: the pumps, read acks,
\* evictions, the gc timer
NextTeardown ==
  \/ ConnectOne \/ Lifecycle \/ Reclaim \/ Broadcast \/ Pumps
  \/ \E c \in Conns, r \in Rooms, x \in MsgIds : ReadAck(c, r, x)

\* Time passes; the Run loop ends a broadcast pass it has begun and its
\* select takes a register or unregister that is offered again and again;
\* every ServeWS call goes on; a timer that is due fires and its callback runs
\* to its end; a writePump goes on with a payload it can receive (it writes
\* it or fails), and returns when its channel is closed and empty; a
\* readPump's ReadMessage fails once the writePump has closed the transport.
TeardownFairness ==
  /\ WF_vars(Tick)
  /\ WF_vars(BroadcastPassEnd \/ (\E c \in Conns : BroadcastSend(c))
               \/ (\E order \in UNION {[1..k -> Conns] : k \in 0..(MaxConns + NPeers)} :
                      BroadcastEvict(order)))
  /\ \A c \in Conns : SF_vars(Register(c) \/ Unregister(c))
  /\ \A c \in Conns : WF_vars(ServeBootCheck(c) \/ ServeBootClean(c)
                                \/ \E vis \in SUBSET Rooms, ok \in BOOLEAN : ServeBootLoad(c, vis, ok))
  /\ WF_vars(Callback)
  /\ \A c \in Conns : WF_vars(WritePump(c) \/ WritePumpLen(c) \/ WritePumpDrain(c)
                                \/ WritePumpExit(c, TRUE))
  /\ \A c \in Conns : WF_vars(chclosed[c] /\ sendq[c] = <<>> /\ wp[c].pc = "wait"
                                /\ WritePumpExit(c, FALSE))
  /\ \A c \in Conns : WF_vars(wp[c].pc = "exit" /\ ReadPumpExit(c))

SpecTeardown == Init /\ [][NextTeardown]_vars /\ TeardownFairness

\* a connection whose queue fills up: SendToUser callers and broadcasts
\* against the Run loop, the pumps and the gc timer
NextStall ==
  \/ ConnectOne \/ Lifecycle \/ Reclaim \/ Broadcast \/ Pumps
  \/ \E p \in Senders, u \in Users : SendToUser(p, u)
  \/ \E p \in Senders : SendToUserStep(p)
  \/ \E c \in Conns, r \in Rooms, x \in MsgIds : ReadAck(c, r, x)

\* Time passes; the Run loop ends a broadcast pass it has begun and its
\* select takes a register or unregister that is offered again and again;
\* every ServeWS call and every SendToUser call goes on; a timer that is due
\* fires and its callback runs to its end.  Nothing is assumed of the pumps:
\* a queue may stay full for ever.
StallFairness ==
  /\ WF_vars(Tick)
  /\ WF_vars(BroadcastPassEnd \/ (\E c \in Conns : BroadcastSend(c))
               \/ (\E order \in UNION {[1..k -> Conns] : k \in 0..(MaxConns + NPeers)} :
                      BroadcastEvict(order)))
  /\ \A c \in Conns : SF_vars(Register(c) \/ Unregister(c))
  /\ \A c \in Conns : WF_vars(ServeBootCheck(c) \/ ServeBootClean(c)
                                \/ \E vis \in SUBSET Rooms, ok \in BOOLEAN : ServeBootLoad(c, vis, ok))
  /\ WF_vars(Callback)
  /\ \A p \in Senders : WF_vars(SendToUserStep(p))

SpecStall == Init /\ [][NextStall]_vars /\ StallFairness

\* SendToUser against the register and unregister cases, with three devices
\* of one user
NextAlias ==
  \/ Connect \/ Lifecycle
  \/ \E p \in Senders, u \in Users : SendToUser(p, u)
  \/ \E p \in Senders : SendToUserStep(p)

SpecAlias == Init /\ [][NextAlias]_vars

\* onMessage for the send requests, with its SendToUser calls
Request ==
  \/ \E p \in Senders, c \in Conns, db \in DbAnswers, id \in MsgIds :
       \E order \in Orders(db.users) : SendReq(p, c, db, order, id)
  \/ \E p \in Senders : HandlerCall(p)
  \/ \E p \in Senders : HandlerReturn(p)
  \/ \E p \in Senders : SendToUserStep(p)

\* the send requests of the clients: connections coming and going, requests
NextRequest == ConnectChat \/ Lifecycle \/ Request

SpecRequest == Init /\ [][NextRequest]_vars

\* ------------------------------------------------------------------ claims

\* C1: under any interleaving of mergeRead calls on a UserSession, the stored
\* cursor of every room equals the greatest value merged for that room since
\* the map was last pruned; a lower or repeated value never lowers it.
C1_CursorIsMaxMerged ==
  \A sid \in Allocated, r \in Rooms : sess[sid].ReadList[r] = merged[sid][r]

\* C1 witness: a merge of a value below the stored cursor has completed while
\* another device is inside its own mergeRead call.
C1_Witness ==
  /\ op.name = "merge"
  /\ op.arg < sess[op.sid].ReadList[op.room]
  /\ \E d \in Devs : mr[d].pc # "idle"

\* The session was dirty, or never flushed, or changed less than idleFor ago.
PruneBlocked(s, idleFor, t) ==
  s.dirty \/ s.lastFlush = 0 \/ t - s.lastReadChangeAt < idleFor

\* C6 (as amended): pruneReadListIfIdle(idleFor) leaves the map unchanged when
\* the session is dirty, or was never flushed, or its last change is less than
\* idleFor ago; it clears the map only if the session is not dirty, was
\* flushed at least once and has been idle for at least idleFor.
C6_PruneOnlyWhenCleanFlushedIdle ==
  [][\A sid \in SessIds, th \in 0..MaxIdle :
       CallPrune(sid, th) =>
         /\ PruneBlocked(sess[sid], th, now) => sess'[sid].ReadList = sess[sid].ReadList
         /\ sess'[sid].ReadList # sess[sid].ReadList =>
              /\ ~sess[sid].dirty
              /\ sess[sid].lastFlush # 0
              /\ now - sess[sid].lastReadChangeAt >= th]_vars

\* C6 witness: pruneReadListIfIdle has just run on a dirty session whose map
\* is still there.
C6_Witness ==
  /\ op.name = "prune"
  /\ op.arg > 0
  /\ sess[op.sid].dirty
  /\ ~ReadListEmpty(sess[op.sid])

\* C6 as stated: the map is cleared only when the session has been idle for
\* longer than the threshold.
C6_ClearsOnlyWhenIdleLonger ==
  [][\A sid \in SessIds, th \in 0..MaxIdle :
       (CallPrune(sid, th) /\ sess'[sid].ReadList # sess[sid].ReadList) =>
         /\ ~sess[sid].dirty
         /\ sess[sid].lastFlush # 0
         /\ now - sess[sid].lastReadChangeAt > th]_vars

\* ------------------------------------------------------------ registries
\* the connections registered for user u
Registered(u) == {c \in clients : UserOf(c) = u}

\* the positions of all userClients lists
Slots == {<<u, j>> \in Users \X (1..(2 * MaxConns)) : j <= userClients[u].len}

\* C2: a connection is in userClients[uid] iff it is in clients, it is there
\* once, and the size of clients is the sum of the lengths of the lists
C2_RegistryMembership ==
  /\ \A c \in Conns :
       c \in clients <=> \E j \in 1..userClients[UserOf(c)].len : userClients[UserOf(c)].arr[j] = c
  /\ \A u \in Users : \A j, k \in 1..userClients[u].len :
       j # k => userClients[u].arr[j] # userClients[u].arr[k]
  /\ Cardinality(clients) = Cardinality(Slots)

\* C3: the unregister of a connection that is no longer in clients closes
\* nothing, does not panic and leaves clients, userClients, Sessions and
\* gcTimers as they were
C3_LateUnregisterIsNoOp ==
  [][\A c \in Conns :
       (cstate[c] = "unregwait" /\ cstate'[c] = "gone" /\ c \notin clients)
       => /\ chclosed' = chclosed
          /\ panicked' = panicked
          /\ clients' = clients
          /\ userClients' = userClients
          /\ Sessions' = Sessions
          /\ gcTimers' = gcTimers]_vars

\* C4: from the unregister of a user's last connection until the user
\* registers again, and before the 5 minutes are over, the user's session is
\* the same object and holds every cursor it held at the unregister
C4_GraceKeepsCursors ==
  \A u \in Users :
    (atDisc[u].t # 0 /\ now < atDisc[u].until)
    => /\ Sessions[u] = atDisc[u].sid
       /\ \A r \in Rooms : sess[atDisc[u].sid].ReadList[r] >= atDisc[u].map[r]

\* the connections a call read from userClients, as a set
Targets(call) == {call.start[j] : j \in DOMAIN call.start}

C7_TimerOnlyWithoutConnections ==
  \A u \in Users :
    gcTimers[u] # 0 => Registered(u) = {}

\* C8: the callback's deletes never hit a user who has a registered
\* connection at that moment
C8_DeleteOnlyWithoutConnections ==
  [][\A t \in Conns :
       (timer[t].st = "delete" /\ timer'[t].st = "done") => Registered(UserOf(t)) = {}]_vars

\* C9: no SendToUser call panics
C9_SendToUserNeverPanics == ~panicked

\* C10: when the callback deletes a user's session, every cursor of the
\* session is in the database
C10_EvictedCursorsPersisted ==
  [][\A t \in Conns :
       (timer[t].st = "delete" /\ timer'[t].st = "done" /\ Sessions[UserOf(t)] # 0)
       => \A r \in Rooms :
            persisted[UserOf(t)][r] >= sess[Sessions[UserOf(t)]].ReadList[r]]_vars

C12_MarkedCleanIsPersisted ==
  [][(hub.pc = "mark" /\ hub'.pc = "prune")
       => \A r \in Rooms :
            sess'[hub.cur].ReadList[r] <= persisted'[sess[hub.cur].UserID][r]]_vars

\* C13: a dirty flag set by a read ack stays set until markFlushed runs
C13_AckDirtyStaysSet ==
  \A sid \in SessIds : ackDirty[sid] => sess[sid].dirty

\* ------------------------------------------------------ register, unregister
\* C14: the register case leaves the user with a session (the one they had, if
\* any, with its cursors untouched), with no gcTimers entry and no armed timer,
\* and with the connection in clients and at the end of the user's list, the
\* list otherwise as before
C14_RegisterEffect ==
  [][\A c \in Conns :
       (cstate[c] = "regwait" /\ cstate'[c] = "running") =>
         LET u == UserOf(c) IN
         /\ Sessions'[u] # 0
         /\ Sessions[u] # 0 => (Sessions'[u] = Sessions[u] /\ sess'[Sessions[u]] = sess[Sessions[u]])
         /\ gcTimers'[u] = 0
         /\ \A t \in Conns : UserOf(t) = u => timer'[t].st # "armed"
         /\ c \in clients'
         /\ userClients'[u].len = userClients[u].len + 1
         /\ userClients'[u].arr[userClients'[u].len] = c
         /\ \A j \in 1..userClients[u].len : userClients'[u].arr[j] = userClients[u].arr[j]]_vars

\* C15: the unregister case leaves Sessions and every UserSession as they are
\* and writes nothing to the database; it removes and closes this connection
\* only, and when the user's list becomes empty a timer of 5 minutes is armed
\* and stored in gcTimers
C15_UnregisterKeepsSession ==
  [][\A c \in Conns :
       (cstate[c] = "unregwait" /\ cstate'[c] = "gone") =>
         LET u == UserOf(c) IN
         /\ Sessions' = Sessions /\ sess' = sess /\ persisted' = persisted
         /\ clients' = clients \ {c}
         /\ \A d \in Conns \ {c} : chclosed'[d] = chclosed[d]
         /\ (c \in clients /\ userClients'[u].len = 0)
              => /\ gcTimers'[u] = c
                 /\ timer'[c].st = "armed" /\ timer'[c].deadline = now + GcDelay]_vars

\* the user's last connection has been unregistered: the session is kept,
\* with a cursor in it, and the timer is pending
C15_Witness ==
  \E u \in Users :
    /\ atDisc[u].t # 0 /\ gcTimers[u] = atDisc[u].t /\ timer[gcTimers[u]].st = "armed"
    /\ Registered(u) = {}
    /\ Sessions[u] = atDisc[u].sid
    /\ \E r \in Rooms : sess[Sessions[u]].ReadList[r] # 0 /\ sess[Sessions[u]].dirty

\* --------------------------------------------------------------- broadcast
\* the connections in the list of user u
Listed(u) == {userClients[u].arr[j] : j \in 1..userClients[u].len}

\* a connection after the eviction pass has removed it
Evicted(c) ==
  /\ c \notin clients'
  /\ \A j \in 1..userClients'[UserOf(c)].len : userClients'[UserOf(c)].arr[j] # c
  /\ ~chclosed[c] /\ chclosed'[c]

RECURSIVE IsSubseq(_, _)
IsSubseq(a, b) ==
  IF a = <<>> THEN TRUE
  ELSE IF b = <<>> THEN FALSE
  ELSE IF Head(a) = Head(b) THEN IsSubseq(Tail(a), Tail(b))
  ELSE IsSubseq(a, Tail(b))

C18_EventsOneAtATime ==
  [][/\ \A c \in Conns :
          (cstate'[c] # cstate[c] /\ cstate'[c] \in {"running", "gone"})
          => /\ hub.pc = "idle" /\ hub'.pc = "idle"
             /\ \A d \in Conns \ {c} : cstate'[d] = cstate[d]
     /\ (hub.pc # "bcast" /\ hub'.pc = "bcast") => (hub.pc = "idle" /\ cstate' = cstate)
     /\ \A c \in Conns :
          (cstate'[c] # cstate[c] /\ cstate'[c] \in {"unregwait", "gone"}) => c \in regd]_vars

\* a connection is registered whose register was applied after the unregister
\* of another connection of the same user (which armed the timer that the
\* reconnect stopped)
C18_Witness ==
  \E c, d \in Conns :
    /\ c # d /\ UserOf(c) = UserOf(d)
    /\ cstate[c] = "gone" /\ timer[c].st = "stopped"
    /\ d \in clients /\ {c, d} \subseteq regd

\* ------------------------------------------------------------- the pumps
\* C19: for every connection at most one send on h.unregister is ever started;
\* it is started exactly when the read loop ends, and the return of writePump
\* starts none
C19_OneUnregisterPerConnection ==
  \A c \in Conns :
    /\ nunreg[c] <= 1
    /\ cstate[c] \in {"unregwait", "gone"} <=> nunreg[c] = 1
    /\ (wp[c].pc = "exit" /\ cstate[c] = "running") => nunreg[c] = 0

\* a connection ended by the closure of its queue: the eviction closed the
\* channel, writePump has returned, the read loop has ended and its one
\* unregister is waiting for the Run loop
C19_Witness ==
  \E c \in Conns :
    /\ chclosed[c] /\ wp[c].pc = "exit"
    /\ cstate[c] = "unregwait" /\ nunreg[c] = 1

\* a step in which the Run loop applies a register, an unregister or an eviction
RunStep ==
  \/ \E c \in Conns : cstate'[c] # cstate[c] /\ cstate'[c] \in {"running", "gone"}
  \/ hub.pc = "evict" /\ hub'.pc = "idle"

\* C20: clients, userClients, Sessions and gcTimers change only in steps of
\* the Run loop
C20_OnlyRunWritesRegistries ==
  [][regVars' # regVars => RunStep]_vars

C22_SweepDoesNotStallHub ==
  (Alive /\ hub.pc = "flush") =>
     /\ \A c \in Conns : cstate[c] = "regwait" => ENABLED Register(c)
     /\ \A c \in Conns : cstate[c] = "unregwait" => ENABLED Unregister(c)
     /\ nmsg < MaxSends => ENABLED BroadcastStart
     /\ \A p \in Senders, u \in Users :
          (stu[p].pc = "idle" /\ nmsg < MaxSends) => ENABLED SendToUser(p, u)

\* ------------------------------------------------------------ client frames
\* C23: a read ack on a connection changes the UserSession of that
\* connection's user and nothing else: every other session (any other user's
\* cursor for the same room included) stays as it is, nothing is enqueued on
\* any connection, no SendToUser or broadcast starts, nothing is persisted
C23_ReadAckTouchesOwnSessionOnly ==
  [][\A c \in Conns, r \in Rooms, x \in MsgIds :
       ReadAck(c, r, x) =>
         /\ sess[csess[c]].UserID = UserOf(c)
         /\ \A sid \in SessIds : sid # csess[c] => sess'[sid] = sess[sid]
         /\ \A u \in Users \ {UserOf(c)} :
              Sessions[u] # 0 => sess'[Sessions[u]].ReadList = sess[Sessions[u]].ReadList
         /\ sess'[csess[c]].ReadList[r] = Max(sess[csess[c]].ReadList[r], x)
         /\ persisted' = persisted
         /\ sendq' = sendq /\ elog' = elog
         /\ stu' = stu /\ hub' = hub /\ nmsg' = nmsg]_vars

\* two users are connected with cursors for room 1, and an ack of one of them
\* has taken their cursor above the other's
C23_Witness ==
  \E a, b \in Conns :
    /\ UserOf(a) # UserOf(b)
    /\ cstate[a] = "running" /\ cstate[b] = "running"
    /\ csess[a] = Sessions[UserOf(a)] /\ csess[b] = Sessions[UserOf(b)]
    /\ sess[csess[a]].ReadList[1] = 1
    /\ sess[csess[b]].ReadList[1] = 2
    /\ sess[csess[b]].dirty

\* the users SendToUser has been called for with the payload of request m
Called(m) == {reqs[m].called[i] : i \in 1..Len(reqs[m].called)}

\* onMessage is no longer running request m: it has returned, or the process
\* has died in it
Over(m) == panicked \/ \A p \in Senders : hreq[p].msg # m

\* C24: a message envelope is enqueued only for a request whose sender passed
\* the membership/mute/block validation and whose SaveMessage succeeded, and
\* once onMessage is over SendToUser has been called for every user that
\* GetRoomMembers returned (and for nobody else)
C24_FanOutAfterSaveToEveryMember ==
  \A m \in Requests :
    /\ (reqs[m].kind # "error" /\ \E c \in Conns : m \in enq[c]) =>
          (reqs[m].kind = "message" /\ reqs[m].valid /\ reqs[m].saved)
    /\ reqs[m].kind = "message" =>
          /\ Called(m) \subseteq reqs[m].members
          /\ Over(m) => Called(m) = reqs[m].members

\* the same for the requests whose onMessage call has returned (a process
\* that died in the call left aside)
FanOutWhenReturned ==
  \A m \in Requests :
    /\ (reqs[m].kind # "error" /\ \E c \in Conns : m \in enq[c]) =>
          (reqs[m].kind = "message" /\ reqs[m].valid /\ reqs[m].saved)
    /\ reqs[m].kind = "message" =>
          /\ Called(m) \subseteq reqs[m].members
          /\ (\A p \in Senders : hreq[p].msg # m) => Called(m) = reqs[m].members

\* C25: a send request that fails validation or persistence (unknown room,
\* not a member, blocked, muted, SaveMessage error) is answered, once
\* onMessage has returned, by one error envelope passed to SendToUser for the
\* sender, and its payload is on the queue of no connection of another user
C25_FailedRequestOneErrorToSender ==
  \A m \in Requests :
    reqs[m].fail =>
      /\ \A c \in Conns : m \in enq[c] => UserOf(c) = UserOf(reqs[m].conn)
      /\ (\A p \in Senders : hreq[p].msg # m) =>
            /\ reqs[m].kind = "error"
            /\ reqs[m].called = <<UserOf(reqs[m].conn)>>

\* C26: the error envelope of a failed request is enqueued on the connection
\* the request came from and on no other (not on another device of the
\* sender, not on another user), and that connection stays registered for as
\* long as its read loop runs
C26_ErrorOnlyToOriginatingConnection ==
  \A m \in Requests :
    reqs[m].kind = "error" =>
      /\ \A c \in Conns : m \in enq[c] => c = reqs[m].conn
      /\ cstate[reqs[m].conn] = "running" => reqs[m].conn \in clients

\* ------------------------------------------------------------ bootstrap
\* C27: a ServeWS call decides once whether to load, and calls
\* GetVisibleConversationLastReads only if the session's ReadList is empty at
\* that moment; a connect that finds a session with a non-empty ReadList goes
\* on to register without a load, the session as it was
C27_LoadOnlyIntoEmptyMap ==
  [][\A c \in Conns :
       /\ cstate'[c] = "load" => cstate[c] \in {"boot", "load"}
       /\ (cstate[c] = "boot" /\ cstate'[c] = "load") => ReadListEmpty(sess[csess[c]])
       /\ (cstate[c] = "boot" /\ cstate'[c] # "boot" /\ ~created[c]
             /\ ~ReadListEmpty(sess[csess[c]]))
            => (cstate'[c] = "regwait" /\ sess' = sess)]_vars

\* --------------------------------------------------------------- gc timers
\* the timers of user u that are armed, or whose callback has started and not
\* yet returned
Pending(u) ==
  {t \in Conns : UserOf(t) = u /\ timer[t].st \in {"armed", "fired", "snap", "flush", "delete"}}

\* C28: a user has at most one pending gc timer at any time, and the callback
\* of a timer never removes the gcTimers entry of a newer timer
C28_OnePendingTimerPerUser ==
  [][/\ \A u \in Users : Cardinality(Pending(u))' <= 1
     /\ \A t \in Conns :
          (timer[t].st = "delete" /\ timer'[t].st = "done" /\ gcTimers[UserOf(t)] # t)
            => gcTimers'[UserOf(t)] = gcTimers[UserOf(t)]]_vars

\* ------------------------------------------------------ verification codes
\* C29: a code is good for one VerifyCode: of the calls made with the code
\* issued by one SendCode for a (purpose, identifier) pair, at most one
\* returns true; the code is consumed by it and the others return false
C29_CodeAcceptedOnce ==
  \A k \in Keys, g \in 1..MaxIssues : vh.accepts[k][g] <= 1

\* two identifiers name the same account: equal after trimming, e-mail
\* addresses compared without regard to case
SameIdent(a, b) ==
  LET ta == TrimSpace(a)
      tb == TrimSpace(b)
  IN IF Contains(ta, "@") \/ Contains(tb, "@") THEN ToLower(ta) = ToLower(tb) ELSE ta = tb

\* the cooldown of the pair (purpose, identifier) is active
Cooling(pu, i) == \E k \in Keys : rdb.cd[k] /\ k[1] = pu /\ SameIdent(k[2], i)

\* C30: a SendCode for a pair whose cooldown is active (Redis answering)
\* returns no error and an empty code at once, and leaves the stored codes and
\* the cooldown as they are
C30_CooldownKeepsFirstCode ==
  [][\A q \in Callers, pu \in Purposes \ {""}, i \in Identifiers :
       (SendCode(q, pu, i, TRUE) /\ Cooling(pu, i)) =>
          /\ vret' = [ident |-> i, res |-> "empty", code |-> 0]
          /\ rdb' = rdb
          /\ vc'[q] = IdleVc]_vars

\* a code was issued for a@b, it is stored and its cooldown is active, and a
\* SendCode for A@B has returned an empty code
C30_Witness ==
  /\ vret = [ident |-> <<"A", "@", "B">>, res |-> "empty", code |-> 0]
  /\ rdb.cd[<<"register", <<"a", "@", "b">>>>]
  /\ rdb.code[<<"register", <<"a", "@", "b">>>>] # 0
  /\ vh.gen[<<"register", <<"a", "@", "b">>>>] = 1
  /\ vh.nissue = 1

\* C31: a mergeRead that is not applied (room 0, message 0, or a message not
\* above the cursor stored for the room) is a no-op: the cursor map, the dirty
\* flag and lastReadChangeAt of every session are as they were, and the call
\* has returned
C31_UnappliedMergeIsNoOp ==
  [][/\ \A d \in Devs, sid \in SessIds, r \in 0..NRooms, x \in 0..MaxMsg :
          (MrCall(d, sid, r, x) /\ (r = 0 \/ x = 0)) => (sess' = sess /\ mr'[d].pc = "idle")
     /\ \A d \in Devs :
          (MrStore(d) /\ mr[d].x <= sess[mr[d].sid].ReadList[mr[d].room])
          => (sess' = sess /\ mr'[d].pc = "idle")]_vars

\* C31 witness: a mergeRead of a value not above the cursor has returned on a
\* session that was flushed before, and the session is still clean
C31_Witness ==
  /\ op.name = "merge"
  /\ op.arg <= sess[op.sid].ReadList[op.room]
  /\ sess[op.sid].lastFlush # 0
  /\ ~sess[op.sid].dirty

\* C32: a sweep calls FlushUserRead for the sessions that are dirty when it
\* inspects them and for no other, with a copy of the cursor map of that
\* moment; it marks a session clean exactly after a flush that returned nil;
\* for a clean session it makes no persistence call.  (hub changes in the
\* steps of the Run loop only.)
C32_SweepFlushesExactlyDirty ==
  [][/\ \A sid \in SessIds :
          SweepSnap(sid) =>
            /\ hub'.pc = (IF sess[sid].dirty THEN "flush" ELSE "prune")
            /\ sess[sid].dirty => (hub'.cur = sid /\ hub'.snap = sess[sid].ReadList)
     /\ (hub' # hub /\ hub.pc # "flush") => persisted' = persisted
     /\ \A done \in SUBSET Rooms :
          SweepFlush(done) =>
            /\ persisted' = [persisted EXCEPT
                 ![sess[hub.cur].UserID] = FlushUserRead(@, hub.snap, done)]
            /\ hub'.pc = (IF done = FlushRooms(hub.snap) THEN "mark" ELSE "prune")
            /\ sess' = sess
     /\ (hub.pc = "mark" /\ hub' # hub) => (~sess'[hub.cur].dirty /\ hub'.pc = "prune")
     /\ (hub.pc \in {"sweep", "prune"} /\ hub' # hub)
          => \A sid \in SessIds : sess'[sid].dirty = sess[sid].dirty]_vars

\* C32 witness: in one sweep over two sessions, one session was inspected
\* clean and passed over (nothing was ever written for its user), and the
\* other was dirty and its flush has just returned nil
C32_Witness ==
  /\ hub.pc = "mark"
  /\ \E sid \in hub.all \ (hub.todo \cup {hub.cur}) :
       /\ ~sess[sid].dirty
       /\ sess[sid].lastFlush = 0
       /\ \A r \in Rooms : persisted[sess[sid].UserID][r] = 0
  /\ sess[hub.cur].dirty
  /\ \A r \in Rooms : persisted[sess[hub.cur].UserID][r] >= sess[hub.cur].ReadList[r]

\* C33: every cursor value a session holds (merged by a read ack) is
\* eventually persisted: the value stored for the session's user and the room
\* becomes at least as great
C33_MergedEventuallyPersisted ==
  \A sid \in SessIds, r \in Rooms, x \in MsgIds :
    (sid \in Allocated /\ sess[sid].ReadList[r] = x)
      ~> (persisted[UserOf(1)][r] >= x)

\* ------------------------------------------------------------ liveness
\* a ServeWS call for user u is under way, or u has a registered connection
Online(u) ==
  \/ Registered(u) # {}
  \/ \E c \in Conns : UserOf(c) = u /\ cstate[c] \in {"boot", "load", "clean", "regwait"}

\* user u had a registered connection and has none now
Offline(u) == ~Online(u) /\ \E c \in regd : UserOf(c) = u

\* ... and the unregister event of every connection of u has been processed
AllGone(u) == Offline(u) /\ \A c \in Conns : UserOf(c) = u => cstate[c] \in {"none", "gone"}

\* the grace window of every timer of user u that is armed ends within the
\* time modelled
Due(u) == \A t \in Conns : (UserOf(t) = u /\ timer[t].st = "armed") => timer[t].deadline <= MaxTime

\* user u is in none of userClients, Sessions, gcTimers
Absent(u) == ~userClients[u].has /\ Sessions[u] = 0 /\ gcTimers[u] = 0

\* C34: when the last connection of a user has been removed (by an unregister
\* event or by a broadcast eviction), then, unless the user connects again,
\* the unregister event of every connection of the user is processed, and
\* after the grace window the user is absent from userClients, Sessions and
\* gcTimers
C34_EventualReclamation ==
  /\ \A u \in Users : Offline(u) ~> (AllGone(u) \/ Online(u))
  /\ \A u \in Users : (AllGone(u) /\ Due(u)) ~> (Absent(u) \/ Online(u))

\* C34 witness: a user whose last connection was removed by an eviction (its
\* unregister event found it gone from h.clients) is absent from the three
\* maps after a gc callback has run to its end
C34_Witness ==
  \E u \in Users :
    /\ AllGone(u) /\ Absent(u)
    /\ \E t \in Conns : UserOf(t) = u /\ timer[t].st = "done"
    /\ \A c \in regd : UserOf(c) = u => chclosed[c]
    /\ atDisc[u] = NoDisc

\* readPump has left its read loop (it is in its deferred function or has
\* returned), or writePump has returned
PumpExited(c) == cstate[c] \in {"unregwait", "gone"} \/ wp[c].pc = "exit"

\* both pumps have returned (each closes the transport on its way out), the
\* connection is in neither h.clients nor h.userClients, client.send is closed
TornDown(c) ==
  /\ cstate[c] = "gone"
  /\ wp[c].pc = "exit"
  /\ c \notin clients
  /\ c \notin Listed(UserOf(c))
  /\ chclosed[c]

\* C35: when either pump of a connection exits, then eventually both pumps
\* have exited, the connection is out of clients and userClients and its
\* channel is closed
C35_CleanTeardown == \A c \in Conns : PumpExited(c) ~> TornDown(c)

\* C35 witness: a connection whose writePump returned on a failed write (a
\* payload it received was never written) is torn down after one unregister
C35_Witness ==
  \E c \in Conns :
    /\ TornDown(c)
    /\ nunreg[c] = 1
    /\ Len(wlog[c]) < Len(elog[c])
    /\ sendq[c] = <<>>

\* a SendToUser call is inside its loop
Sending(p) == stu[p].pc = "send"

\* the Run loop is inside its broadcast case
InBroadcast == hub.pc \in {"bcast", "evict"}

\* the connection is being offered on h.register or h.unregister
Submitted(c) == cstate[c] \in {"regwait", "unregwait"}

\* C36: with queues that fill up and are never drained, every SendToUser call
\* returns, the Run loop leaves every broadcast it begins, and every register
\* or unregister that is submitted is processed
C36_FullQueueBlocksNobody ==
  /\ \A p \in Senders : Sending(p) ~> ~Sending(p)
  /\ InBroadcast ~> ~InBroadcast
  /\ \A c \in Conns : Submitted(c) ~> ~Submitted(c)

\* the same, for as long as the process lives
NobodyBlockedWhileAlive ==
  /\ \A p \in Senders : Sending(p) ~> (~Sending(p) \/ panicked)
  /\ InBroadcast ~> (~InBroadcast \/ panicked)
  /\ \A c \in Conns : Submitted(c) ~> (~Submitted(c) \/ panicked)

\* C37: every cursor the sweep's pruneReadListIfIdle removes from a session
\* is at most the value persisted for the session's user and the room
C37_PruneDiscardsOnlyPersisted ==
  [][(hub.pc = "prune" /\ hub' # hub)
       => \A r \in Rooms :
            sess'[hub.cur].ReadList[r] # sess[hub.cur].ReadList[r]
              => sess[hub.cur].ReadList[r] <= persisted[sess[hub.cur].UserID][r]]_vars

\* C38: the session of every registered connection is the session stored in
\* Sessions for the connection's user
C38_RegisteredSessionIsStored ==
  \A c \in clients : csess[c] # 0 /\ csess[c] = Sessions[UserOf(c)]

\* C39: no payload is buffered twice on one connection, and a SendToUser call
\* that has returned has buffered its payload on every connection that was
\* in the user's list when the call began and is still registered, unless
\* that connection's queue was full
C39_EachConnectionOnce ==
  /\ \A c \in Conns : \A i, j \in 1..Len(elog[c]) : i # j => elog[c][i] # elog[c][j]
  /\ \A p \in Senders :
       last[p].msg # 0 =>
         \A c \in Targets(last[p]) \cap clients :
           c \in last[p].full \/ last[p].msg \in enq[c]

====
